---- MODULE Spec2Model ----
(***************************************************************************)
(* Model of the adapter data cleaning engine (src/src/data_cleaner.cpp)    *)
(* and of its time alignment engine (TimeAligner, src/src/main.cpp).       *)
(*                                                                         *)
(* A std::string is a sequence of one-character strings, a table is a      *)
(* sequence of rows, a row a sequence of strings.  C++ index i is TLA+     *)
(* index i+1: data[0], the header, is data[1] here.                        *)
(*                                                                         *)
(* A double is an exact rational [neg, num, den] (sign bit, magnitude      *)
(* num/den).  The cell alphabets below only hold decimals whose sums,      *)
(* means and medians are never within one ulp of a rounding tie that is    *)
(* not exactly representable, so exact arithmetic with round-half-to-even  *)
(* gives the text that std::fixed << std::setprecision(p) prints.          *)
(***************************************************************************)
EXTENDS Integers, Sequences, FiniteSets, TLC

\* data: the caller's table; prev: the table as it was passed to the last call;
\* op: the last DataCleaner operation called on it; the other two are the fields
\* of the DataCleaner object
VARIABLES data, prev, op, missing_value_strategies, numeric_precision

\* target_time_interval: the field of the TimeAligner object; align_call: the
\* arguments of the last align_time_series_data call, the way it returned and
\* the values of its locals original_times and target_times; utc_offset: the
\* seconds the local time zone of std::mktime is ahead of UTC
VARIABLES target_time_interval, align_call, utc_offset

aligner_vars == <<target_time_interval, align_call, utc_offset>>

\* parser: the fields of the CsvParser object; split_call: the line of the
\* last split_line call and the cells it returned; load_call: the file of the
\* last load_file call, the value it returned, the number of calls so far and
\* the headers and rows the object held before the call
VARIABLES parser, split_call, load_call

parser_vars == <<parser, split_call, load_call>>

\* config: the settings map of the ConfigManager that is configured and saved;
\* given: the arguments of the last call of each of its setters; config_file:
\* the file save_to_file wrote; loaded_config: the settings map of the second
\* ConfigManager and what its load_from_file call returned
VARIABLES config, given, config_file, loaded_config

config_vars == <<config, given, config_file, loaded_config>>

\* run_call: the inputs of AdapterApplication::run and the values of its
\* locals at the end of its steps
VARIABLES run_call

io_vars == <<parser_vars, config_vars, run_call>>

vars == <<data, prev, op, missing_value_strategies, numeric_precision,
          target_time_interval, align_call, utc_offset, io_vars>>

----------------------------------------------------------------------------
(* Bounds *)

\* largest number of data rows of a table of the general specification
MaxRows == 3
\* largest number of freely chosen data rows of a table of SpecImpute
MaxStatRows == 3
\* largest number of data rows of a table of SpecNormalize
MaxNormRows == 2
\* largest numeric_precision the setter is called with
MaxPrecision == 2
\* largest number of data rows of a table of SpecAlign
MaxAlignRows == 3
\* largest number of characters of a line given to split_line
MaxLineLen == 4
\* largest number of lines of a file given to load_file
MaxFileLines == 3
\* largest number of load_file calls on one parser
MaxLoads == 2
\* largest number of names of a list of variable names
MaxNames == 2
\* largest number of data lines of an input file of the application
MaxRunRows == 3

----------------------------------------------------------------------------
(* Characters and numbers *)

Digits == <<"0", "1", "2", "3", "4", "5", "6", "7", "8", "9">>

IsDigit(c) == \E d \in 1..10 : Digits[d] = c

DigitVal(c) == (CHOOSE d \in 1..10 : Digits[d] = c) - 1

RECURSIVE Pow10(_)
Pow10(k) == IF k <= 0 THEN 1 ELSE 10 * Pow10(k - 1)

MaxOf(a, b) == IF a >= b THEN a ELSE b

\* position of the first "." of s, or 0
RECURSIVE DotPos(_, _)
DotPos(s, i) == IF i > Len(s) THEN 0
                ELSE IF s[i] = "." THEN i
                ELSE DotPos(s, i + 1)

AllDigits(s) == \A i \in 1..Len(s) : IsDigit(s[i])

\* value of a digit string, most significant digit first
RECURSIVE DigitsVal(_)
DigitsVal(s) == IF Len(s) = 0 THEN 0
                ELSE 10 * DigitsVal(SubSeq(s, 1, Len(s) - 1)) + DigitVal(s[Len(s)])

\* decimal digits of a natural number, at least one digit
RECURSIVE NatStr(_)
NatStr(n) == IF n < 10 THEN <<Digits[n + 1]>>
             ELSE Append(NatStr(n \div 10), Digits[(n % 10) + 1])

RECURSIVE Zeros(_)
Zeros(k) == IF k <= 0 THEN <<>> ELSE <<"0">> \o Zeros(k - 1)

----------------------------------------------------------------------------
(* DataCleaner helpers *)

\* std::regex_match(value, ^-?\d*\.?\d+$)
numeric_body(r) ==
    LET d == DotPos(r, 1)
    IN  IF d = 0
        THEN Len(r) >= 1 /\ AllDigits(r)
        ELSE /\ AllDigits(SubSeq(r, 1, d - 1))
             /\ Len(r) > d
             /\ AllDigits(SubSeq(r, d + 1, Len(r)))

is_numeric(value) ==
    IF Len(value) = 0 THEN FALSE
    ELSE IF value[1] = "-" THEN numeric_body(Tail(value))
    ELSE numeric_body(value)

\* \d{4}-\d{2}-\d{2} at position i of s
DateAt(s, i) ==
    /\ i + 9 <= Len(s)
    /\ \A k \in {0, 1, 2, 3, 5, 6, 8, 9} : IsDigit(s[i + k])
    /\ s[i + 4] = "-"
    /\ s[i + 7] = "-"

\* \d{4}-\d{2}-\d{2}[\sT]\d{2}:\d{2}:\d{2} at position i of s
DateTimeAt(s, i) ==
    /\ DateAt(s, i)
    /\ i + 18 <= Len(s)
    /\ s[i + 10] \in {" ", "T"}
    /\ \A k \in {11, 12, 14, 15, 17, 18} : IsDigit(s[i + k])
    /\ s[i + 13] = ":"
    /\ s[i + 16] = ":"

\* std::regex_search: the pattern may match anywhere in the value
is_date(value) ==
    IF Len(value) = 0 THEN FALSE
    ELSE \/ \E i \in 1..Len(value) : DateAt(value, i)
         \/ \E i \in 1..Len(value) : DateTimeAt(value, i)

\* mutant: the date is rewritten with "/" for "-"
normalize_date_format_slash(value) ==
    [i \in 1..Len(value) |-> IF value[i] = "-" THEN "/" ELSE value[i]]

normalize_date_format(value) == value

\* std::stod on a value that matches the numeric pattern
stod(value) ==
    LET neg == value[1] = "-"
        r   == IF neg THEN Tail(value) ELSE value
        d   == DotPos(r, 1)
        ip  == IF d = 0 THEN r ELSE SubSeq(r, 1, d - 1)
        fp  == IF d = 0 THEN <<>> ELSE SubSeq(r, d + 1, Len(r))
    IN  [neg |-> neg,
         num |-> DigitsVal(ip) * Pow10(Len(fp)) + DigitsVal(fp),
         den |-> Pow10(Len(fp))]

Signed(x) == IF x.neg THEN 0 - x.num ELSE x.num

\* x + y in IEEE arithmetic: (-0) + (-0) = -0, every other zero sum is +0
AddNum(x, y) ==
    LET den == MaxOf(x.den, y.den)
        s   == Signed(x) * (den \div x.den) + Signed(y) * (den \div y.den)
    IN  [neg |-> s < 0 \/ (s = 0 /\ x.neg /\ y.neg),
         num |-> IF s < 0 THEN 0 - s ELSE s,
         den |-> den]

\* x / k for an integer k > 0
DivNum(x, k) == [neg |-> x.neg, num |-> x.num, den |-> x.den * k]

\* x < y on doubles (both denominators are powers of ten)
LessNum(x, y) ==
    LET den == MaxOf(x.den, y.den)
    IN  Signed(x) * (den \div x.den) < Signed(y) * (den \div y.den)

\* floor(num * 10^p / den) and the remainder, by long division
RECURSIVE Scaled(_, _, _)
Scaled(num, den, p) ==
    IF p = 0 THEN [q |-> num \div den, r |-> num % den]
    ELSE LET s == Scaled(num, den, p - 1)
         IN  [q |-> 10 * s.q + ((10 * s.r) \div den), r |-> (10 * s.r) % den]

\* oss << std::fixed << std::setprecision(p) << x
FormatFixed(x, p) ==
    LET s    == Scaled(x.num, x.den, p)
        up   == 2 * s.r > x.den \/ (2 * s.r = x.den /\ s.q % 2 = 1)
        q    == IF up THEN s.q + 1 ELSE s.q
        ds0  == NatStr(q)
        ds   == Zeros(p + 1 - Len(ds0)) \o ds0
        body == IF p = 0 THEN ds
                ELSE SubSeq(ds, 1, Len(ds) - p) \o <<".">>
                     \o SubSeq(ds, Len(ds) - p + 1, Len(ds))
    IN  IF x.neg THEN <<"-">> \o body ELSE body

normalize_numeric_format(value, precision) == FormatFixed(stod(value), precision)

----------------------------------------------------------------------------
(* DataCleaner statistics *)

RECURSIVE NumericCount(_)
NumericCount(column) ==
    IF Len(column) = 0 THEN 0
    ELSE (IF is_numeric(Head(column)) THEN 1 ELSE 0) + NumericCount(Tail(column))

\* is_numeric_column with the threshold left out: more than 80%
is_numeric_column_above(column) ==
    IF Len(column) = 0 THEN FALSE
    ELSE 5 * NumericCount(column) > 4 * Len(column)

\* static_cast<double>(numeric_count) / column.size() >= 0.8
is_numeric_column(column) ==
    IF Len(column) = 0 THEN FALSE
    ELSE 5 * NumericCount(column) >= 4 * Len(column)

\* the loop of calculate_mean: sum and count of the values that are numeric
RECURSIVE MeanLoop(_, _, _, _)
MeanLoop(column, i, sum, count) ==
    IF i > Len(column) THEN [sum |-> sum, count |-> count]
    ELSE IF is_numeric(column[i])
         THEN MeanLoop(column, i + 1, AddNum(sum, stod(column[i])), count + 1)
         ELSE MeanLoop(column, i + 1, sum, count)

\* mutant: the sum is divided by the number of all values of the column
calculate_mean_all(column, precision) ==
    IF Len(column) = 0 THEN <<"0">>
    ELSE LET l == MeanLoop(column, 1, [neg |-> FALSE, num |-> 0, den |-> 1], 0)
         IN  IF l.count = 0 THEN <<"0">>
             ELSE FormatFixed(DivNum(l.sum, Len(column)), precision)

calculate_mean(column, precision) ==
    IF Len(column) = 0 THEN <<"0">>
    ELSE LET l == MeanLoop(column, 1, [neg |-> FALSE, num |-> 0, den |-> 1], 0)
         IN  IF l.count = 0 THEN <<"0">>
             ELSE FormatFixed(DivNum(l.sum, l.count), precision)

\* the loop of calculate_median: the numeric values, in column order
RECURSIVE NumericValues(_)
NumericValues(column) ==
    IF Len(column) = 0 THEN <<>>
    ELSE IF is_numeric(Head(column))
         THEN <<stod(Head(column))>> \o NumericValues(Tail(column))
         ELSE NumericValues(Tail(column))

\* x inserted into the sorted sequence s, after the values that are not greater
RECURSIVE InsertSorted(_, _)
InsertSorted(s, x) ==
    IF Len(s) = 0 THEN <<x>>
    ELSE IF LessNum(x, Head(s)) THEN <<x>> \o s
    ELSE <<Head(s)>> \o InsertSorted(Tail(s), x)

\* std::sort(numeric_values.begin(), numeric_values.end())
RECURSIVE SortNum(_)
SortNum(s) == IF Len(s) = 0 THEN <<>>
              ELSE InsertSorted(SortNum(SubSeq(s, 1, Len(s) - 1)), s[Len(s)])

\* mutant: the values are not sorted
calculate_median_unsorted(column, precision) ==
    IF Len(column) = 0 THEN <<"0">>
    ELSE LET numeric_values == NumericValues(column)
             size == Len(numeric_values)
         IN  IF size = 0 THEN <<"0">>
             ELSE IF size % 2 = 0
                  THEN FormatFixed(DivNum(AddNum(numeric_values[size \div 2],
                                                 numeric_values[size \div 2 + 1]), 2),
                                   precision)
                  ELSE FormatFixed(numeric_values[size \div 2 + 1], precision)

calculate_median(column, precision) ==
    IF Len(column) = 0 THEN <<"0">>
    ELSE LET numeric_values == SortNum(NumericValues(column))
             size == Len(numeric_values)
         IN  IF size = 0 THEN <<"0">>
             ELSE IF size % 2 = 0
                  THEN FormatFixed(DivNum(AddNum(numeric_values[size \div 2],
                                                 numeric_values[size \div 2 + 1]), 2),
                                   precision)
                  ELSE FormatFixed(numeric_values[size \div 2 + 1], precision)

----------------------------------------------------------------------------
(* DataCleaner operations on a table *)

\* the loop of remove_duplicate_rows from row i on
RECURSIVE DedupLoop(_, _, _, _)
DedupLoop(table, i, unique_rows, cleaned_data) ==
    IF i > Len(table) THEN cleaned_data
    ELSE IF table[i] \notin unique_rows
         THEN DedupLoop(table, i + 1, unique_rows \cup {table[i]},
                        Append(cleaned_data, table[i]))
         ELSE DedupLoop(table, i + 1, unique_rows, cleaned_data)

\* mutant: a row is dropped only when it equals the row right before it
remove_duplicate_rows_adjacent(table) ==
    IF Len(table) <= 1 THEN table
    ELSE <<table[1]>> \o SelectSeq([i \in 1..(Len(table) - 1) |->
                                       IF i > 1 /\ table[i + 1] = table[i]
                                       THEN <<>> ELSE <<table[i + 1]>>],
                                   LAMBDA x : x # <<>>)

\* mutant: the header is in the set of rows already seen
remove_duplicate_rows_header(table) ==
    IF Len(table) <= 1 THEN table
    ELSE DedupLoop(table, 2, {table[1]}, <<table[1]>>)

remove_duplicate_rows(table) ==
    IF Len(table) <= 1 THEN table
    ELSE DedupLoop(table, 2, {}, <<table[1]>>)

\* mutant: the markers are compared without regard to case
IsMissingAnyCase(value) ==
    \/ Len(value) = 0
    \/ /\ Len(value) = 3
       /\ value[1] \in {"N", "n"} /\ value[2] \in {"A", "a"} /\ value[3] \in {"N", "n"}
    \/ /\ Len(value) = 2
       /\ value[1] \in {"N", "n"} /\ value[2] \in {"A", "a"}
    \/ /\ Len(value) = 4
       /\ value[1] \in {"N", "n"} /\ value[2] \in {"U", "u"}
       /\ value[3] \in {"L", "l"} /\ value[4] \in {"L", "l"}

IsMissing(value) ==
    \/ Len(value) = 0
    \/ value = <<"N", "a", "N">>
    \/ value = <<"n", "a", "n">>
    \/ value = <<"N", "A">>
    \/ value = <<"N", "U", "L", "L">>

\* data rows (TLA+ index >= 2) that have a cell in column col
RowsWith(table, col) == {r \in 2..Len(table) : col <= Len(table[r])}

missing_indices(table, col) == {r \in RowsWith(table, col) : IsMissing(table[r][col])}

\* the non-missing values of column col, in row order
RECURSIVE column_values(_, _, _)
column_values(table, col, row) ==
    IF row > Len(table) THEN <<>>
    ELSE IF col <= Len(table[row]) /\ ~IsMissing(table[row][col])
         THEN <<table[row][col]>> \o column_values(table, col, row + 1)
         ELSE column_values(table, col, row + 1)

\* mutant: the fallback replacement is formatted like the computed ones
replacement_value_formatted(values, strategies, precision) ==
    IF Len(strategies) = 0 THEN FormatFixed([neg |-> FALSE, num |-> 0, den |-> 1], precision)
    ELSE LET strategy == strategies[1]
         IN  IF strategy = "mean" /\ is_numeric_column(values)
             THEN calculate_mean(values, precision)
             ELSE IF strategy = "median" /\ is_numeric_column(values)
             THEN calculate_median(values, precision)
             ELSE FormatFixed([neg |-> FALSE, num |-> 0, den |-> 1], precision)

\* replacement_value with the last entry of the list as the strategy
replacement_value_last(values, strategies, precision) ==
    IF Len(strategies) = 0 THEN <<"0">>
    ELSE LET strategy == strategies[Len(strategies)]
         IN  IF strategy = "mean" /\ is_numeric_column(values)
             THEN calculate_mean(values, precision)
             ELSE IF strategy = "median" /\ is_numeric_column(values)
             THEN calculate_median(values, precision)
             ELSE <<"0">>

replacement_value(values, strategies, precision) ==
    IF Len(strategies) = 0 THEN <<"0">>
    ELSE LET strategy == strategies[1]
         IN  IF strategy = "mean" /\ is_numeric_column(values)
             THEN calculate_mean(values, precision)
             ELSE IF strategy = "median" /\ is_numeric_column(values)
             THEN calculate_median(values, precision)
             ELSE <<"0">>

\* mutant: only the first missing cell of the column is replaced
ImputeColumnFirst(table, col, strategies, precision) ==
    LET values  == column_values(table, col, 2)
        missing == missing_indices(table, col)
    IN  IF missing = {} \/ Len(values) = 0 THEN table
        ELSE LET rv == replacement_value(values, strategies, precision)
                 first == CHOOSE r \in missing : \A q \in missing : r <= q
             IN  [table EXCEPT ![first][col] = rv]

\* ImputeColumn that overwrites every cell of the column, not the missing ones
ImputeColumnAll(table, col, strategies, precision) ==
    LET values  == column_values(table, col, 2)
        missing == missing_indices(table, col)
    IN  IF missing = {} \/ Len(values) = 0 THEN table
        ELSE LET rv == replacement_value(values, strategies, precision)
             IN  [r \in 1..Len(table) |->
                    IF r \in RowsWith(table, col)
                    THEN [table[r] EXCEPT ![col] = rv]
                    ELSE table[r]]

\* one iteration of the column loop of handle_missing_values
ImputeColumn(table, col, strategies, precision) ==
    LET values  == column_values(table, col, 2)
        missing == missing_indices(table, col)
    IN  IF missing = {} \/ Len(values) = 0 THEN table
        ELSE LET rv == replacement_value(values, strategies, precision)
             IN  [r \in 1..Len(table) |->
                    IF r \in missing
                    THEN [table[r] EXCEPT ![col] = rv]
                    ELSE table[r]]

RECURSIVE ImputeLoop(_, _, _, _, _)
ImputeLoop(table, col, num_columns, strategies, precision) ==
    IF col > num_columns THEN table
    ELSE ImputeLoop(ImputeColumn(table, col, strategies, precision),
                    col + 1, num_columns, strategies, precision)

handle_missing_values(table, strategies, precision) ==
    IF Len(table) <= 1 THEN table
    ELSE ImputeLoop(table, 1, Len(table[1]), strategies, precision)

NormalizeCell(value, precision) ==
    IF is_numeric(value) THEN normalize_numeric_format(value, precision)
    ELSE IF is_date(value) THEN normalize_date_format(value)
    ELSE value

\* mutant: the loop starts at row 0
normalize_formats_from_header(table, precision) ==
    IF Len(table) <= 1 THEN table
    ELSE [r \in 1..Len(table) |->
            [c \in 1..Len(table[r]) |-> NormalizeCell(table[r][c], precision)]]

normalize_formats(table, precision) ==
    IF Len(table) <= 1 THEN table
    ELSE [r \in 1..Len(table) |->
            IF r = 1 THEN table[r]
            ELSE [c \in 1..Len(table[r]) |-> NormalizeCell(table[r][c], precision)]]

\* mutant: the formats are normalized before the duplicates are removed
clean_data_normalize_first(table, strategies, precision) ==
    IF Len(table) = 0 THEN table
    ELSE handle_missing_values(
             remove_duplicate_rows(normalize_formats(table, precision)),
             strategies, precision)

\* clean_data without the pass that removes the duplicate rows
clean_data_keep_duplicates(table, strategies, precision) ==
    IF Len(table) = 0 THEN table
    ELSE normalize_formats(handle_missing_values(table, strategies, precision),
                           precision)

clean_data(table, strategies, precision) ==
    IF Len(table) = 0 THEN table
    ELSE normalize_formats(
             handle_missing_values(remove_duplicate_rows(table), strategies, precision),
             precision)

----------------------------------------------------------------------------
(* TimeAligner: parsing and rendering of time values *)

\* the same double with the common factors of ten taken out of the fraction,
\* which keeps the products of the interpolation within 32 bits
RECURSIVE Lowest(_)
Lowest(x) ==
    IF x.den > 1 /\ x.num % 10 = 0
    THEN Lowest([x EXCEPT !.num = x.num \div 10, !.den = x.den \div 10])
    ELSE x

\* a whole number of seconds as a double
IntNum(n) == [neg |-> n < 0, num |-> IF n < 0 THEN 0 - n ELSE n, den |-> 1]

\* std::regex_match(time_str, ^\d+(\.\d+)?$)
numeric_pattern(time_str) ==
    LET d == DotPos(time_str, 1)
    IN  IF d = 0
        THEN Len(time_str) >= 1 /\ AllDigits(time_str)
        ELSE /\ d >= 2
             /\ AllDigits(SubSeq(time_str, 1, d - 1))
             /\ Len(time_str) > d
             /\ AllDigits(SubSeq(time_str, d + 1, Len(time_str)))

\* std::stoi of the sub-match that starts at position i and has n digits
MatchInt(s, i, n) == DigitsVal(SubSeq(s, i, i + n - 1))

\* days between 1970-01-01 and the first day of month m of year y in the
\* proleptic Gregorian calendar (m in 1..12)
days_from_civil(y, m) ==
    LET yy  == IF m <= 2 THEN y - 1 ELSE y
        era == yy \div 400
        yoe == yy - era * 400
        mp  == IF m > 2 THEN m - 3 ELSE m + 9
        doy == (153 * mp + 2) \div 5
        doe == yoe * 365 + yoe \div 4 - yoe \div 100 + doy
    IN  era * 146097 + doe - 719468

\* std::mktime of the broken-down local time; fields out of range are
\* normalised by carrying into the next larger field; the local zone is
\* utc seconds ahead of UTC
mktime(year, month, day, hour, minute, second, utc) ==
    LET y == year + (month - 1) \div 12
        m == ((month - 1) % 12) + 1
    IN  (days_from_civil(y, m) + day - 1) * 86400
        + hour * 3600 + minute * 60 + second - utc

\* position of the leftmost match of the date-time pattern in s, or 0
DateTimeMatch(s) ==
    IF \E i \in 1..Len(s) : DateTimeAt(s, i)
    THEN CHOOSE i \in 1..Len(s) :
             DateTimeAt(s, i) /\ \A j \in 1..(i - 1) : ~DateTimeAt(s, j)
    ELSE 0

\* position of the leftmost match of the date pattern in s, or 0
DateMatch(s) ==
    IF \E i \in 1..Len(s) : DateAt(s, i)
    THEN CHOOSE i \in 1..Len(s) :
             DateAt(s, i) /\ \A j \in 1..(i - 1) : ~DateAt(s, j)
    ELSE 0

\* the three parsing attempts of the loop body of parse_time_column:
\* kind is "none" when all of them fail and the value is skipped
parse_time_value(time_str, utc) ==
    LET i  == DateTimeMatch(time_str)
        j  == DateMatch(time_str)
        dt == mktime(MatchInt(time_str, i, 4), MatchInt(time_str, i + 5, 2),
                     MatchInt(time_str, i + 8, 2), MatchInt(time_str, i + 11, 2),
                     MatchInt(time_str, i + 14, 2), MatchInt(time_str, i + 17, 2),
                     utc)
        d  == mktime(MatchInt(time_str, j, 4), MatchInt(time_str, j + 5, 2),
                     MatchInt(time_str, j + 8, 2), 0, 0, 0, utc)
    IN  IF numeric_pattern(time_str)
        THEN [kind |-> "numeric", time_value |-> Lowest(stod(time_str))]
        ELSE IF i # 0 /\ dt # -1
        THEN [kind |-> "datetime", time_value |-> IntNum(dt)]
        ELSE IF j # 0 /\ d # -1
        THEN [kind |-> "date", time_value |-> IntNum(d)]
        ELSE [kind |-> "none", time_value |-> IntNum(0)]

RECURSIVE parse_time_column(_, _)
parse_time_column(time_column, utc) ==
    IF Len(time_column) = 0 THEN <<>>
    ELSE LET p == parse_time_value(Head(time_column), utc)
         IN  (IF p.kind = "none" THEN <<>> ELSE <<p.time_value>>)
             \o parse_time_column(Tail(time_column), utc)

\* year, month and day of the day that is z days after 1970-01-01
civil_from_days(z) ==
    LET zz  == z + 719468
        era == zz \div 146097
        doe == zz - era * 146097
        yoe == (doe - doe \div 1460 + doe \div 36524 - doe \div 146096) \div 365
        doy == doe - (365 * yoe + yoe \div 4 - yoe \div 100)
        mp  == (5 * doy + 2) \div 153
        m   == IF mp < 10 THEN mp + 3 ELSE mp - 9
    IN  [year  |-> yoe + era * 400 + (IF m <= 2 THEN 1 ELSE 0),
         month |-> m,
         day   |-> doy - (153 * mp + 2) \div 5 + 1]

\* the decimal digits of n, padded with zeros to at least w digits
Padded(n, w) == Zeros(w - Len(NatStr(n))) \o NatStr(n)

\* static_cast<std::time_t>(time_value): the fraction is cut off
time_t_of(time_value) ==
    LET q == time_value.num \div time_value.den
    IN  IF time_value.neg THEN 0 - q ELSE q

\* std::gmtime and std::put_time(tm_ptr, "%Y-%m-%dT%H:%M:%S")
format_time_value(time_value) ==
    LET time_t_value == time_t_of(time_value)
        c   == civil_from_days(time_t_value \div 86400)
        sec == time_t_value % 86400
    IN  Padded(c.year, 4) \o <<"-">> \o Padded(c.month, 2) \o <<"-">>
        \o Padded(c.day, 2) \o <<"T">> \o Padded(sec \div 3600, 2) \o <<":">>
        \o Padded((sec % 3600) \div 60, 2) \o <<":">> \o Padded(sec % 60, 2)

----------------------------------------------------------------------------
(* TimeAligner: grid and interpolation *)

\* x <= y on doubles (both denominators are powers of ten)
LeqNum(x, y) == ~LessNum(y, x)

\* *std::min_element(original_times.begin(), original_times.end())
RECURSIVE min_element(_)
min_element(times) ==
    IF Len(times) = 1 THEN times[1]
    ELSE LET m == min_element(SubSeq(times, 1, Len(times) - 1))
         IN  IF LessNum(times[Len(times)], m) THEN times[Len(times)] ELSE m

\* *std::max_element(original_times.begin(), original_times.end())
RECURSIVE max_element(_)
max_element(times) ==
    IF Len(times) = 1 THEN times[1]
    ELSE LET m == max_element(SubSeq(times, 1, Len(times) - 1))
         IN  IF LessNum(m, times[Len(times)]) THEN times[Len(times)] ELSE m

\* for (double t = start_time; t <= end_time; t += target_time_interval)
RECURSIVE GridLoop(_, _, _)
GridLoop(t, end_time, interval) ==
    IF LeqNum(t, end_time)
    THEN <<t>> \o GridLoop(AddNum(t, interval), end_time, interval)
    ELSE <<>>

\* mutant: the loop stops before the end time is reached
RECURSIVE GridLoopBelow(_, _, _)
GridLoopBelow(t, end_time, interval) ==
    IF LessNum(t, end_time)
    THEN <<t>> \o GridLoopBelow(AddNum(t, interval), end_time, interval)
    ELSE <<>>

create_uniform_time_grid_below(start_time, end_time, interval) ==
    IF LeqNum(end_time, start_time) \/ LeqNum(interval, IntNum(0)) THEN <<>>
    ELSE GridLoopBelow(start_time, end_time, interval)

\* mutant: a grid that cannot be stepped through holds the start time
create_uniform_time_grid_single(start_time, end_time, interval) ==
    IF LeqNum(end_time, start_time) \/ LeqNum(interval, IntNum(0)) THEN <<start_time>>
    ELSE GridLoop(start_time, end_time, interval)

create_uniform_time_grid(start_time, end_time, interval) ==
    IF LeqNum(end_time, start_time) \/ LeqNum(interval, IntNum(0)) THEN <<>>
    ELSE GridLoop(start_time, end_time, interval)

\* number of digits of s from position i on
RECURSIVE DigitCount(_, _)
DigitCount(s, i) ==
    IF i <= Len(s) /\ IsDigit(s[i]) THEN 1 + DigitCount(s, i + 1) ELSE 0

\* number of blanks of s from position i on
RECURSIVE BlankCount(_, _)
BlankCount(s, i) ==
    IF i <= Len(s) /\ s[i] = " " THEN 1 + BlankCount(s, i + 1) ELSE 0

\* std::stod(value): leading blanks, an optional sign, then the longest
\* run of digits with at most one "."; whatever follows is ignored; ok is
\* FALSE when std::invalid_argument is thrown (no digit to convert).
\* Exponents, hexadecimal numbers, "inf" and "nan" are not modelled.
stod_prefix(value) ==
    LET b    == 1 + BlankCount(value, 1)
        sgn  == b <= Len(value) /\ value[b] \in {"-", "+"}
        i    == IF sgn THEN b + 1 ELSE b
        n1   == DigitCount(value, i)
        dot  == i + n1 <= Len(value) /\ value[i + n1] = "."
        n2   == IF dot THEN DigitCount(value, i + n1 + 1) ELSE 0
        ip   == SubSeq(value, i, i + n1 - 1)
        fp   == SubSeq(value, i + n1 + 1, i + n1 + n2)
        x    == Lowest([neg |-> sgn /\ value[b] = "-",
                        num |-> DigitsVal(ip) * Pow10(n2) + DigitsVal(fp),
                        den |-> Pow10(n2)])
    IN  [ok |-> n1 + n2 >= 1, neg |-> x.neg, num |-> x.num, den |-> x.den]

\* x - y, x * y and x / y in IEEE arithmetic on exact fractions
SubNum(x, y) ==
    LET s == Signed(x) * y.den - Signed(y) * x.den
    IN  [neg |-> s < 0 \/ (s = 0 /\ x.neg /\ ~y.neg),
         num |-> IF s < 0 THEN 0 - s ELSE s,
         den |-> x.den * y.den]

MulNum(x, y) ==
    [neg |-> x.neg # y.neg, num |-> x.num * y.num, den |-> x.den * y.den]

QuotNum(x, y) ==
    [neg |-> x.neg # y.neg, num |-> x.num * y.den, den |-> x.den * y.num]

SumNum(x, y) ==
    LET s == Signed(x) * y.den + Signed(y) * x.den
    IN  [neg |-> s < 0 \/ (s = 0 /\ x.neg /\ y.neg),
         num |-> IF s < 0 THEN 0 - s ELSE s,
         den |-> x.den * y.den]

\* mutant: the slope is applied to the distance from the upper sample
linear_interpolation_from_upper(x, x1, y1, x2, y2) ==
    IF SubNum(x2, x1).num = 0 THEN y1
    ELSE SumNum(y1, QuotNum(MulNum(SubNum(y2, y1), SubNum(x2, x)),
                            SubNum(x2, x1)))

\* a difference of two times of the model that is not zero is never below
\* 1e-10, so std::abs(x2 - x1) < 1e-10 holds exactly when the two are equal
linear_interpolation(x, x1, y1, x2, y2) ==
    IF SubNum(x2, x1).num = 0 THEN y1
    ELSE SumNum(y1, QuotNum(MulNum(SubNum(y2, y1), SubNum(x, x1)),
                            SubNum(x2, x1)))

\* |x| <= |y| for two differences of times
AbsLeq(x, y) == x.num * y.den <= y.num * x.den

\* mutant: the last adjacent pair that encloses the target is taken
find_bracket_last(original_times, target_time) ==
    LET n    == Len(original_times)
        hits == {i \in 1..(n - 1) :
                     /\ LeqNum(original_times[i], target_time)
                     /\ LeqNum(target_time, original_times[i + 1])}
    IN  IF hits = {} THEN [lower_idx |-> 1, upper_idx |-> n]
        ELSE LET i == CHOOSE h \in hits : \A g \in hits : g <= h
             IN  [lower_idx |-> i, upper_idx |-> i + 1]

\* mutant: the first two samples are the bracket of every target
find_bracket_first_pair(original_times, target_time) ==
    [lower_idx |-> 1, upper_idx |-> IF Len(original_times) > 1 THEN 2 ELSE 1]

\* the scan of interpolate_values for the two closest time points; the
\* indices count from 1
RECURSIVE BracketLoop(_, _, _)
BracketLoop(original_times, target_time, i) ==
    IF i > Len(original_times) - 1
    THEN [lower_idx |-> 1, upper_idx |-> Len(original_times)]
    ELSE IF /\ LeqNum(original_times[i], target_time)
            /\ LeqNum(target_time, original_times[i + 1])
         THEN [lower_idx |-> i, upper_idx |-> i + 1]
         ELSE BracketLoop(original_times, target_time, i + 1)

find_bracket(original_times, target_time) ==
    BracketLoop(original_times, target_time, 1)

\* mutant: the upper sample wins when both are equally far
nearest_neighbor_upper(target_time, t_lower, v_lower, t_upper, v_upper) ==
    IF AbsLeq(SubNum(target_time, t_upper), SubNum(target_time, t_lower))
    THEN v_upper
    ELSE v_lower

\* the catch block of interpolate_values
nearest_neighbor(target_time, t_lower, v_lower, t_upper, v_upper) ==
    IF AbsLeq(SubNum(target_time, t_lower), SubNum(target_time, t_upper))
    THEN v_lower
    ELSE v_upper

\* std::to_string(double): six decimals
to_string(x) == FormatFixed(x, 6)

\* mutant: the value of the lower sample of the bracket is held
interpolated_value_lower(original_times, original_values, target_time) ==
    LET b           == find_bracket(original_times, target_time)
        lower_value == stod_prefix(original_values[b.lower_idx])
    IN  IF lower_value.ok
        THEN to_string(lower_value)
        ELSE original_values[b.lower_idx]

\* the body of the loop of interpolate_values for one target time
interpolated_value(original_times, original_values, target_time) ==
    LET b           == find_bracket(original_times, target_time)
        lower_value == stod_prefix(original_values[b.lower_idx])
        upper_value == stod_prefix(original_values[b.upper_idx])
    IN  IF lower_value.ok /\ upper_value.ok
        THEN to_string(linear_interpolation(
                 target_time, original_times[b.lower_idx], lower_value,
                 original_times[b.upper_idx], upper_value))
        ELSE nearest_neighbor(
                 target_time,
                 original_times[b.lower_idx], original_values[b.lower_idx],
                 original_times[b.upper_idx], original_values[b.upper_idx])

interpolate_values(original_times, original_values, target_times) ==
    IF Len(original_times) # Len(original_values) \/ Len(original_times) = 0
    THEN <<>>
    ELSE [k \in 1..Len(target_times) |->
              interpolated_value(original_times, original_values, target_times[k])]

----------------------------------------------------------------------------
(* TimeAligner::align_time_series_data *)

\* mutant: column 0 is taken when no header field has the name
find_time_column_default(header, time_column_name) ==
    IF \E i \in 1..Len(header) : header[i] = time_column_name
    THEN CHOOSE i \in 1..Len(header) :
             /\ header[i] = time_column_name
             /\ \A j \in 1..(i - 1) : header[j] # time_column_name
    ELSE IF Len(header) > 0 THEN 1 ELSE 0

\* index (from 1) of the first header field equal to the name; 0 when
\* found_time_column stays false
find_time_column(header, time_column_name) ==
    IF \E i \in 1..Len(header) : header[i] = time_column_name
    THEN CHOOSE i \in 1..Len(header) :
             /\ header[i] = time_column_name
             /\ \A j \in 1..(i - 1) : header[j] # time_column_name
    ELSE 0

\* the fields of column col of the data rows that have such a field
extract_column(table, col) ==
    LET rows == SelectSeq(Tail(table), LAMBDA r : col <= Len(r))
    IN  [k \in 1..Len(rows) |-> rows[k][col]]

\* mutant: the row holds the time value only
new_row_time_only(table, time_column_index, original_times, target_time) ==
    <<format_time_value(target_time)>>

\* the row built for one time of the grid
new_row(table, time_column_index, original_times, target_time) ==
    [col \in 1..Len(table[1]) |->
        IF col = time_column_index THEN format_time_value(target_time)
        ELSE LET interpolated_values ==
                     interpolate_values(original_times,
                                        extract_column(table, col),
                                        <<target_time>>)
             IN  IF Len(interpolated_values) # 0 THEN interpolated_values[1]
                 ELSE <<"0">>]

\* what a call that returns before aligned_data is built leaves behind
Returned(table, outcome) ==
    [data |-> table, outcome |-> outcome,
     original_times |-> <<>>, target_times |-> <<>>]

\* mutant: only the columns named in one of the role lists are resampled
align_time_series_data_roles(table, time_column_name, dependent_columns, independent_columns, interval, utc) ==
    IF Len(table) = 0 THEN Returned(table, "no_data")
    ELSE LET time_column_index == find_time_column(table[1], time_column_name)
         IN  IF time_column_index = 0 THEN Returned(table, "not_found")
             ELSE LET original_times ==
                          parse_time_column(extract_column(table, time_column_index), utc)
                  IN  IF Len(original_times) = 0 THEN Returned(table, "unparsed")
                      ELSE LET target_times ==
                                   create_uniform_time_grid(
                                       min_element(original_times),
                                       max_element(original_times), interval)
                               named == {dependent_columns[i] : i \in 1..Len(dependent_columns)}
                                        \cup {independent_columns[i] : i \in 1..Len(independent_columns)}
                           IN  [data |-> <<table[1]>> \o
                                    [k \in 1..Len(target_times) |->
                                        [col \in 1..Len(table[1]) |->
                                            IF col = time_column_index \/ table[1][col] \in named
                                            THEN new_row(table, time_column_index,
                                                         original_times, target_times[k])[col]
                                            ELSE <<"0">>]],
                                outcome |-> "aligned",
                                original_times |-> original_times,
                                target_times |-> target_times]

\* the table the call leaves in data, with the way it returned and its
\* locals original_times and target_times
align_time_series_data(table, time_column_name, dependent_columns, independent_columns, interval, utc) ==
    IF Len(table) = 0 THEN Returned(table, "no_data")
    ELSE LET time_column_index == find_time_column(table[1], time_column_name)
         IN  IF time_column_index = 0 THEN Returned(table, "not_found")
             ELSE LET original_times ==
                          parse_time_column(extract_column(table, time_column_index), utc)
                  IN  IF Len(original_times) = 0 THEN Returned(table, "unparsed")
                      ELSE LET target_times ==
                                   create_uniform_time_grid(
                                       min_element(original_times),
                                       max_element(original_times), interval)
                           IN  [data |-> <<table[1]>> \o
                                    [k \in 1..Len(target_times) |->
                                        new_row(table, time_column_index,
                                                original_times, target_times[k])],
                                outcome |-> "aligned",
                                original_times |-> original_times,
                                target_times |-> target_times]

----------------------------------------------------------------------------
(* CsvParser *)

\* the characters std::isspace accepts in the C locale (the vertical tab has
\* no escape here and is in no input)
Whitespace == {" ", "\t", "\n", "\r", "\f"}

\* cell.erase(cell.begin(), std::find_if(cell.begin(), cell.end(), !isspace))
RECURSIVE TrimLeft(_)
TrimLeft(s) ==
    IF s # <<>> /\ Head(s) \in Whitespace THEN TrimLeft(Tail(s)) ELSE s

\* cell.erase(std::find_if(cell.rbegin(), cell.rend(), !isspace).base(), cell.end())
RECURSIVE TrimRight(_)
TrimRight(s) ==
    IF s # <<>> /\ s[Len(s)] \in Whitespace
    THEN TrimRight(SubSeq(s, 1, Len(s) - 1))
    ELSE s

Trim(s) == TrimRight(TrimLeft(s))

\* SplitLoop but for the quotes, which are dropped and protect nothing
RECURSIVE SplitLoopAnywhere(_, _, _, _, _, _)
SplitLoopAnywhere(line, delimiter, i, in_quotes, current_cell, result) ==
    IF i > Len(line) THEN Append(result, current_cell)
    ELSE IF line[i] = "\""
         THEN SplitLoopAnywhere(line, delimiter, i + 1, ~in_quotes, current_cell,
                                result)
    ELSE IF line[i] = delimiter
         THEN SplitLoopAnywhere(line, delimiter, i + 1, in_quotes, <<>>,
                                Append(result, current_cell))
    ELSE SplitLoopAnywhere(line, delimiter, i + 1, in_quotes,
                           Append(current_cell, line[i]), result)

\* the loop over the characters of the line: a quote toggles in_quotes and is
\* dropped, a delimiter outside quotes ends the cell, and after the last
\* character the cell in progress is pushed
RECURSIVE SplitLoop(_, _, _, _, _, _)
SplitLoop(line, delimiter, i, in_quotes, current_cell, result) ==
    IF i > Len(line) THEN Append(result, current_cell)
    ELSE IF line[i] = "\""
         THEN SplitLoop(line, delimiter, i + 1, ~in_quotes, current_cell, result)
    ELSE IF line[i] = delimiter /\ ~in_quotes
         THEN SplitLoop(line, delimiter, i + 1, in_quotes, <<>>,
                        Append(result, current_cell))
    ELSE SplitLoop(line, delimiter, i + 1, in_quotes,
                   Append(current_cell, line[i]), result)

\* the clean-up of one cell: a pair of enclosing quotes is cut off, then the
\* white space at both ends
CleanCell(cell) ==
    LET stripped == IF /\ Len(cell) >= 2
                       /\ cell[1] = "\""
                       /\ cell[Len(cell)] = "\""
                    THEN SubSeq(cell, 2, Len(cell) - 1)
                    ELSE cell
    IN  Trim(stripped)

split_line(line, delimiter) ==
    LET result == SplitLoop(line, delimiter, 1, FALSE, <<>>, <<>>)
    IN  [k \in 1..Len(result) |-> CleanCell(result[k])]

\* the headers are the cells of the line, trimmed once more
parse_headers(line, delimiter) ==
    LET cells == split_line(line, delimiter)
    IN  [k \in 1..Len(cells) |-> Trim(cells[k])]

\* column_indices[headers[i]] = i for i upwards: a name that stands twice
\* keeps its last index (indices count from 1 here)
build_column_indices(headers) ==
    [name \in {headers[i] : i \in 1..Len(headers)} |->
        CHOOSE i \in 1..Len(headers) :
            /\ headers[i] = name
            /\ \A j \in 1..Len(headers) : headers[j] = name => j <= i]

\* the lines std::getline reads from the content of a file: a line ends at
\* "\n", and what follows the last "\n" is a line if it is not empty
GetLines(content) ==
    LET breaks == {i \in 1..Len(content) : content[i] = "\n"}
        n == Cardinality(breaks)
        break(k) == IF k = 0 THEN 0
                    ELSE CHOOSE i \in breaks :
                             Cardinality({j \in breaks : j < i}) = k - 1
        ended == [k \in 1..n |-> SubSeq(content, break(k - 1) + 1, break(k) - 1)]
    IN  IF break(n) < Len(content)
        THEN Append(ended, SubSeq(content, break(n) + 1, Len(content)))
        ELSE ended

\* the while loop of load_file over the lines of the file
RECURSIVE LoadLoop(_, _, _, _, _, _)
LoadLoop(lines, delimiter, i, is_first_line, headers, rows) ==
    IF i > Len(lines) THEN [headers |-> headers, data |-> rows]
    ELSE IF lines[i] = <<>>
         THEN LoadLoop(lines, delimiter, i + 1, is_first_line, headers, rows)
    ELSE IF is_first_line
         THEN LoadLoop(lines, delimiter, i + 1, FALSE,
                       parse_headers(lines[i], delimiter), rows)
    ELSE LET row == split_line(lines[i], delimiter)
         IN  LoadLoop(lines, delimiter, i + 1, is_first_line, headers,
                      IF Len(row) = Len(headers) THEN Append(rows, row) ELSE rows)

\* a file of the file system: one that cannot be opened, or its content
NoFile == [is_open |-> FALSE, content |-> <<>>]

\* load_file without data.clear(): the rows of the file are added to the rows
\* the object holds
load_file_keep(p, filename, file) ==
    IF ~file.is_open
    THEN [parser |-> [p EXCEPT !.filename = filename], returned |-> FALSE]
    ELSE LET loaded == LoadLoop(GetLines(file.content), p.delimiter,
                                1, TRUE, <<>>, p.data)
         IN  [parser |-> [filename       |-> filename,
                          delimiter      |-> p.delimiter,
                          headers        |-> loaded.headers,
                          data           |-> loaded.data,
                          column_indices |-> build_column_indices(loaded.headers)],
              returned |-> TRUE]

\* CsvParser::load_file: the object after the call and the value returned
load_file(p, filename, file) ==
    IF ~file.is_open
    THEN [parser |-> [p EXCEPT !.filename = filename], returned |-> FALSE]
    ELSE LET loaded == LoadLoop(GetLines(file.content), p.delimiter,
                                1, TRUE, <<>>, <<>>)
         IN  [parser |-> [filename       |-> filename,
                          delimiter      |-> p.delimiter,
                          headers        |-> loaded.headers,
                          data           |-> loaded.data,
                          column_indices |-> build_column_indices(loaded.headers)],
              returned |-> TRUE]

get_column(p, column_name) ==
    IF column_name \notin DOMAIN p.column_indices THEN <<>>
    ELSE LET column_index == p.column_indices[column_name]
             rows == SelectSeq(p.data, LAMBDA row : column_index <= Len(row))
         IN  [k \in 1..Len(rows) |-> rows[k][column_index]]

get_row_count(p) == Len(p.data)

get_column_count(p) == Len(p.headers)

----------------------------------------------------------------------------
(* ConfigManager *)

\* the keys of the settings map, as the strings of set_default_values
KeyInputFile ==
    <<"i", "n", "p", "u", "t", "_", "f", "i", "l", "e">>

KeyOutputFile ==
    <<"o", "u", "t", "p", "u", "t", "_", "f", "i", "l", "e">>

KeyDependentVariables ==
    <<"d", "e", "p", "e", "n", "d", "e", "n", "t", "_", "v", "a", "r", "i",
      "a", "b", "l", "e", "s">>

KeyIndependentVariables ==
    <<"i", "n", "d", "e", "p", "e", "n", "d", "e", "n", "t", "_", "v", "a",
      "r", "i", "a", "b", "l", "e", "s">>

KeyTimeColumn ==
    <<"t", "i", "m", "e", "_", "c", "o", "l", "u", "m", "n">>

KeyDelimiter ==
    <<"d", "e", "l", "i", "m", "i", "t", "e", "r">>

KeyTargetTimeInterval ==
    <<"t", "a", "r", "g", "e", "t", "_", "t", "i", "m", "e", "_", "i", "n",
      "t", "e", "r", "v", "a", "l">>

KeySolverMethod ==
    <<"s", "o", "l", "v", "e", "r", "_", "m", "e", "t", "h", "o", "d">>

KeyNumericPrecision ==
    <<"n", "u", "m", "e", "r", "i", "c", "_", "p", "r", "e", "c", "i", "s",
      "i", "o", "n">>

KeyDateFormat ==
    <<"d", "a", "t", "e", "_", "f", "o", "r", "m", "a", "t">>

\* the keys in the order set_default_values inserts them
DefaultKeys ==
    <<KeyInputFile, KeyOutputFile, KeyDependentVariables,
      KeyIndependentVariables, KeyTimeColumn, KeyDelimiter,
      KeyTargetTimeInterval, KeySolverMethod, KeyNumericPrecision,
      KeyDateFormat>>

\* the values set_default_values gives them
DefaultValues ==
    <<<<>>,
      <<"o", "u", "t", "p", "u", "t", ".", "c", "s", "v">>,
      <<>>,
      <<>>,
      <<"t", "i", "m", "e">>,
      <<",">>,
      <<"1", ".", "0">>,
      <<"l", "i", "n", "e", "a", "r">>,
      <<"2">>,
      <<"%", "Y", "-", "%", "m", "-", "%", "d">>>>

\* ConfigManager::set_default_values: the settings of a new ConfigManager
set_default_values ==
    [key \in {DefaultKeys[i] : i \in 1..Len(DefaultKeys)} |->
        DefaultValues[CHOOSE i \in 1..Len(DefaultKeys) : DefaultKeys[i] = key]]

\* settings[key] = value
Put(settings, key, value) ==
    [k \in DOMAIN settings \cup {key} |->
        IF k = key THEN value ELSE settings[k]]

\* the two comment lines and the empty line save_to_file writes first
FileHeading ==
    <<"#", " ", "A", "d", "a", "p", "t", "e", "r", " ", "C", "o", "n", "f", "i", "g", "u", "r", "a", "t", "i", "o", "n", " ", "F", "i", "l", "e">>
      \o <<"\n">> \o
    <<"#", " ", "G", "e", "n", "e", "r", "a", "t", "e", "d", " ", "a", "u", "t", "o", "m", "a", "t", "i", "c", "a", "l", "l", "y">>
      \o <<"\n", "\n">>

\* the setting lines of save_to_file, one "key=value" line for each key of
\* the order the map is iterated in
RECURSIVE SettingLines(_, _)
SettingLines(settings, order) ==
    IF order = <<>> THEN <<>>
    ELSE (IF Head(order) \in DOMAIN settings
          THEN Head(order) \o <<"=">> \o settings[Head(order)] \o <<"\n">>
          ELSE <<>>)
         \o SettingLines(settings, Tail(order))

\* ConfigManager::save_to_file: the content of the file written
save_to_file(settings, order) ==
    [is_open |-> TRUE, content |-> FileHeading \o SettingLines(settings, order)]

\* line.find('='): the position of the first "=", 0 if there is none
find_equals(line) ==
    IF \E i \in 1..Len(line) : line[i] = "="
    THEN CHOOSE i \in 1..Len(line) :
             /\ line[i] = "="
             /\ \A j \in 1..(i - 1) : line[j] # "="
    ELSE 0

\* the while loop of load_from_file: empty lines, comment lines and lines
\* without "=" are skipped, key and value are trimmed
RECURSIVE ConfigLoop(_, _, _)
ConfigLoop(lines, i, settings) ==
    IF i > Len(lines) THEN settings
    ELSE LET line == lines[i]
             equals_pos == find_equals(line)
         IN  IF line = <<>> \/ line[1] = "#" \/ equals_pos = 0
             THEN ConfigLoop(lines, i + 1, settings)
             ELSE ConfigLoop(lines, i + 1,
                             Put(settings,
                                 Trim(SubSeq(line, 1, equals_pos - 1)),
                                 Trim(SubSeq(line, equals_pos + 1, Len(line)))))

\* ConfigManager::load_from_file: the settings after the call and the value
\* returned
load_from_file(settings, file) ==
    IF ~file.is_open THEN [settings |-> settings, returned |-> FALSE]
    ELSE [settings |-> ConfigLoop(GetLines(file.content), 1, settings),
          returned |-> TRUE]

\* ConfigManager::join_string_list
RECURSIVE join_string_list(_)
join_string_list(values) ==
    IF values = <<>> THEN <<>>
    ELSE IF Len(values) = 1 THEN values[1]
    ELSE values[1] \o <<",">> \o join_string_list(Tail(values))

\* the items std::getline(ss, item, ',') reads from the value
RECURSIVE GetItems(_, _, _)
GetItems(value, i, item) ==
    IF i > Len(value)
    THEN IF item = <<>> THEN <<>> ELSE <<item>>
    ELSE IF value[i] = ","
         THEN <<item>> \o GetItems(value, i + 1, <<>>)
         ELSE GetItems(value, i + 1, Append(item, value[i]))

\* ConfigManager::parse_string_list: the trimmed items that are not empty
parse_string_list(value) ==
    IF value = <<>> THEN <<>>
    ELSE LET items == GetItems(value, 1, <<>>)
             trimmed == [k \in 1..Len(items) |-> Trim(items[k])]
         IN  SelectSeq(trimmed, LAMBDA item : item # <<>>)

set_input_file(settings, filename) == Put(settings, KeyInputFile, filename)

set_output_file(settings, filename) == Put(settings, KeyOutputFile, filename)

set_dependent_variables(settings, variables) ==
    Put(settings, KeyDependentVariables, join_string_list(variables))

set_independent_variables(settings, variables) ==
    Put(settings, KeyIndependentVariables, join_string_list(variables))

set_time_column(settings, column_name) ==
    Put(settings, KeyTimeColumn, column_name)

\* std::string(1, delimiter)
set_delimiter(settings, delimiter) == Put(settings, KeyDelimiter, <<delimiter>>)

get_input_file(settings) ==
    IF KeyInputFile \in DOMAIN settings THEN settings[KeyInputFile] ELSE <<>>

get_output_file(settings) ==
    IF KeyOutputFile \in DOMAIN settings THEN settings[KeyOutputFile]
    ELSE <<"o", "u", "t", "p", "u", "t", ".", "c", "s", "v">>

get_dependent_variables(settings) ==
    IF KeyDependentVariables \in DOMAIN settings
    THEN parse_string_list(settings[KeyDependentVariables])
    ELSE <<>>

get_independent_variables(settings) ==
    IF KeyIndependentVariables \in DOMAIN settings
    THEN parse_string_list(settings[KeyIndependentVariables])
    ELSE <<>>

get_time_column(settings) ==
    IF KeyTimeColumn \in DOMAIN settings THEN settings[KeyTimeColumn]
    ELSE <<"t", "i", "m", "e">>

\* the first character of the stored string, the comma if it is empty
get_delimiter(settings) ==
    IF KeyDelimiter \in DOMAIN settings /\ settings[KeyDelimiter] # <<>>
    THEN settings[KeyDelimiter][1]
    ELSE ","

----------------------------------------------------------------------------
(* AdapterApplication *)

\* one line of write_output_csv: the cells with the delimiter between them
RECURSIVE JoinCells(_, _)
JoinCells(row, delimiter) ==
    IF row = <<>> THEN <<>>
    ELSE IF Len(row) = 1 THEN row[1]
    ELSE row[1] \o <<delimiter>> \o JoinCells(Tail(row), delimiter)

RECURSIVE OutputLines(_, _)
OutputLines(rows, delimiter) ==
    IF rows = <<>> THEN <<>>
    ELSE JoinCells(Head(rows), delimiter) \o <<"\n">>
         \o OutputLines(Tail(rows), delimiter)

\* AdapterApplication::write_output_csv: the content written
write_output_csv(headers, rows, delimiter) ==
    OutputLines(<<headers>> \o rows, delimiter)

\* AdapterApplication::run after parse_arguments: file is the input file,
\* delimiter, time_column and interval are what the getters of config return,
\* writable tells whether the output file can be created. The result holds
\* the exit code and the locals of the four steps
\* steps 3 and 4 of run: the final table is written when the output file can
\* be created
RunOutput(headers, parsed, cleaned, final, delimiter, writable) ==
    [returned |-> IF writable THEN 0 ELSE 1,
     headers |-> headers,
     parsed |-> parsed,
     cleaned |-> cleaned,
     final_headers |-> Head(final),
     final_data |-> Tail(final),
     output |-> IF writable
                THEN write_output_csv(Head(final), Tail(final), delimiter)
                ELSE <<>>]

\* step 3 of run: the aligned table replaces data_with_headers when a
\* time column is configured and the alignment returns rows
RunAlign(headers, parsed, cleaned, data_with_headers, aligned, delimiter, time_column, writable) ==
    RunOutput(headers, parsed, cleaned,
              IF time_column # <<>> /\ aligned # <<>>
              THEN aligned ELSE data_with_headers,
              delimiter, writable)

\* step 2 of run: clean_data on the rows of the parser, then the header is
\* put in front of them
RunClean(headers, parsed, cleaned, delimiter, time_column, interval, writable, utc) ==
    RunAlign(headers, parsed, cleaned, <<headers>> \o cleaned,
             align_time_series_data(<<headers>> \o cleaned, time_column,
                                    <<>>, <<>>, interval, utc).data,
             delimiter, time_column, writable)

\* run after load_file
RunLoaded(loaded, delimiter, time_column, interval, writable, utc) ==
    IF ~loaded.returned
    THEN [returned |-> 1, headers |-> <<>>, parsed |-> <<>>,
          cleaned |-> <<>>, final_headers |-> <<>>, final_data |-> <<>>,
          output |-> <<>>]
    ELSE RunClean(loaded.parser.headers, loaded.parser.data,
                  clean_data(loaded.parser.data, <<"mean">>, 2),
                  delimiter, time_column, interval, writable, utc)

run(file, delimiter, time_column, interval, writable, utc) ==
    RunLoaded(load_file([filename |-> <<>>, delimiter |-> delimiter,
                         headers |-> <<>>, data |-> <<>>,
                         column_indices |-> <<>>],
                        <<>>, file),
              delimiter, time_column, interval, writable, utc)

----------------------------------------------------------------------------
(* Input tables *)

SeqsUpTo(S, n) == UNION {[1..k -> S] : k \in 0..n}

\* data rows of the tables of Spec: two columns, one short row, one row that
\* repeats the header
Rows ==
    { <<<<"1", "0">>, <<"x">>>>,
      <<<<"1", "0", ".", "0", "0">>, <<"x">>>>,
      <<<<>>, <<"2", "0", "2", "1", "-", "0", "1", "-", "0", "1">>>>,
      <<<<"3", "0">>, <<"N", "A">>>>,
      <<<<"t">>, <<"v">>>>,
      <<<<"1", "0", ".", "1", "2", "3", "4", "5", "6">>>> }

Tables == {<<<<<<"t">>, <<"v">>>>>> \o rows : rows \in SeqsUpTo(Rows, MaxRows)}
              \cup {<<>>}

\* cells of the freely chosen rows of the first column of a table of SpecImpute
StatCells == { <<"1", "0">>, <<"3", "0">>, <<>>, <<"N", "A">>, <<"x">> }

\* rows that follow the freely chosen ones
StatTails ==
    { <<>>,
      <<<<"4", "0">>>>,
      <<<<"2", "0">>, <<"4", "0">>, <<"x">>>>,
      <<<<"N", "a", "N">>, <<"n", "a", "n">>, <<"N", "U", "L", "L">>,
        <<"n", "u", "l", "l">>>>,
      <<<<"-", "5">>, <<".", "5">>>> }

\* the second column of a table of SpecImpute: all missing, or every other
\* cell missing
StatSecond(r, pattern) ==
    IF pattern = "missing" THEN <<>>
    ELSE IF r % 2 = 1 THEN <<"N", "a", "N">> ELSE <<"7">>

StatTables ==
    { <<<<<<"t">>, <<"v">>>>>> \o
        [r \in 1..Len(col) |-> <<col[r], StatSecond(r, pattern)>>] :
      col \in {free \o tail : free \in SeqsUpTo(StatCells, MaxStatRows),
                              tail \in StatTails},
      pattern \in {"missing", "mixed"} }

NormCells ==
    { <<"1", "0", ".", "1", "2", "3", "4", "5", "6">>,
      <<"1", "0">>,
      <<"-", ".", "5">>,
      <<"5", ".">>,
      <<"1", "e", "3">>,
      <<"t", "e", "x", "t">>,
      <<"2", "0", "2", "1", "-", "0", "1", "-", "0", "1">>,
      <<"0", "0", "7", ".", "2", "5">> }

NormRows == {<<c>> : c \in NormCells} \cup {<<c, <<"7">>>> : c \in NormCells}

NormTables ==
    { <<h>> \o rows : h \in {<<<<"t">>, <<"v">>>>, <<<<"1">>, <<"2">>>>},
                      rows \in SeqsUpTo(NormRows, MaxNormRows) }

StrategyLists ==
    { <<>>, <<"mean">>, <<"median">>, <<"zero">>, <<"mode", "mean">> }

----------------------------------------------------------------------------
(* State machine *)

\* DataCleaner::DataCleaner()
\* time values that are numbers of seconds
NumericTimeCells ==
    { <<"0">>, <<"1">>, <<"3">>, <<"2", ".", "5">> }

\* time values that are dates, one of them inside other text
DateTimeCells ==
    { <<"1", "9", "7", "0", "-", "0", "1", "-", "0", "1">>,
      <<"o", "n", " ", "1", "9", "7", "0", "-", "0", "1", "-", "0", "1", " ", "0", "0", ":", "0", "0", ":", "0", "3", "!">> }

\* a time value that none of the three rules parses
UnparsedCell == <<"n", "/", "a">>

\* time columns: seconds or dates, with values that do not parse among them
TimeColumns ==
    SeqsUpTo(NumericTimeCells \cup {UnparsedCell}, MaxAlignRows)
    \cup SeqsUpTo(DateTimeCells \cup {UnparsedCell}, MaxAlignRows)

\* value columns: numbers, numbers and labels, and values std::stod reads
\* in part or not at all
NumberPattern == << <<"1", "0">>, <<"2", "0">>, <<"4", "0">> >>

MixedPattern == << <<"1", "0">>, <<"b">>, <<"c">> >>

PrefixPattern == << <<"7", "u", "p">>, <<"-", "4", ".", "5">>, <<>> >>

ValuePatterns == {NumberPattern, MixedPattern, PrefixPattern}

\* the value of row k of a column that follows the pattern
PatternCell(pattern, k) == pattern[((k - 1) % Len(pattern)) + 1]

\* tables with the time column first, and tables with the time column last
AlignTables ==
    {<<>>}
    \cup {<<<<<<"t">>, <<"v">>>>>> \o [k \in 1..Len(times) |-> <<times[k], PatternCell(pattern, k)>>] :
              times \in TimeColumns, pattern \in ValuePatterns}
    \cup {<<<<<<"v">>, <<"t">>>>>> \o [k \in 1..Len(times) |-> <<PatternCell(MixedPattern, k), times[k]>>] :
              times \in TimeColumns}

\* the intervals set_target_time_interval is called with
Intervals ==
    { [neg |-> FALSE, num |-> 2, den |-> 1], [neg |-> FALSE, num |-> 5, den |-> 10],
      [neg |-> FALSE, num |-> 0, den |-> 1], [neg |-> TRUE, num |-> 1, den |-> 1] }

\* the arguments of a call: the time column of the header with three
\* choices of dependent_columns and independent_columns, and a name that
\* is not in the header
Calls ==
    { [time_column_name |-> <<"t">>, dependent_columns |-> <<>>, independent_columns |-> <<>>],
      [time_column_name |-> <<"t">>, dependent_columns |-> <<<<"v">>>>, independent_columns |-> <<>>],
      [time_column_name |-> <<"t">>, dependent_columns |-> <<>>, independent_columns |-> <<<<"v">>>>],
      [time_column_name |-> <<"x">>, dependent_columns |-> <<<<"v">>>>, independent_columns |-> <<>>] }

\* the zones std::mktime runs in: UTC and one hour ahead of it
UtcOffsets == {0, 3600}

\* no align_time_series_data call was made yet
NoCall ==
    [time_column_name |-> <<>>, dependent_columns |-> <<>>,
     independent_columns |-> <<>>, outcome |-> "none",
     original_times |-> <<>>, target_times |-> <<>>]

\* TimeAligner::TimeAligner()
AlignerConstructed ==
    /\ target_time_interval = [neg |-> FALSE, num |-> 1, den |-> 1]
    /\ align_call = NoCall

\* CsvParser::CsvParser(): the delimiter is the comma, the strings and the
\* containers are empty, and no call was made yet
NoSplit == [line |-> <<>>, result |-> <<>>, called |-> FALSE]

NoLoad ==
    [file |-> NoFile, returned |-> FALSE, loads |-> 0,
     headers_before |-> <<>>, data_before |-> <<>>]

ParserConstructed ==
    /\ parser = [filename |-> <<>>, delimiter |-> ",", headers |-> <<>>,
                 data |-> <<>>, column_indices |-> <<>>]
    /\ split_call = NoSplit
    /\ load_call = NoLoad

\* ConfigManager::ConfigManager(), for both managers; no setter was called,
\* no file was written or read
Unset == [set |-> FALSE, value |-> <<>>]

NothingGiven ==
    [input_file |-> Unset, output_file |-> Unset, time_column |-> Unset,
     delimiter |-> Unset, dependent_variables |-> Unset,
     independent_variables |-> Unset]

ConfigConstructed ==
    /\ config = set_default_values
    /\ given = NothingGiven
    /\ config_file = NoFile
    /\ loaded_config = [settings |-> set_default_values, returned |-> FALSE,
                        called |-> FALSE]

\* AdapterApplication::run was not called
NoRun ==
    [called |-> FALSE, file |-> NoFile, delimiter |-> ",",
     time_column |-> <<>>, returned |-> 0, headers |-> <<>>,
     parsed |-> <<>>, cleaned |-> <<>>, final_headers |-> <<>>,
     final_data |-> <<>>, output |-> <<>>]

IoConstructed ==
    /\ ParserConstructed
    /\ ConfigConstructed
    /\ run_call = NoRun

CleanerConstructed ==
    /\ missing_value_strategies = <<"mean">>
    /\ numeric_precision = 2
    /\ op = "none"

Constructed ==
    /\ CleanerConstructed
    /\ AlignerConstructed
    /\ utc_offset = 0
    /\ IoConstructed

Init ==
    /\ Constructed
    /\ data \in Tables
    /\ prev = data

InitImpute ==
    /\ Constructed
    /\ data \in StatTables
    /\ prev = data

InitNormalize ==
    /\ Constructed
    /\ data \in NormTables
    /\ prev = data

\* the setters: the cleaner is configured before it is given the table
InitAlign ==
    /\ missing_value_strategies = <<"mean">>
    /\ numeric_precision = 2
    /\ op = "none"
    /\ AlignerConstructed
    /\ IoConstructed
    /\ utc_offset \in UtcOffsets
    /\ data \in AlignTables
    /\ prev = data

SetMissingValueStrategies ==
    /\ op = "none"
    /\ \E strategies \in StrategyLists : missing_value_strategies' = strategies
    /\ UNCHANGED <<data, prev, op, numeric_precision, aligner_vars, io_vars>>

SetNumericPrecision ==
    /\ op = "none"
    /\ \E precision \in 0..MaxPrecision : numeric_precision' = precision
    /\ UNCHANGED <<data, prev, op, missing_value_strategies, aligner_vars, io_vars>>

RemoveDuplicateRows ==
    /\ data' = remove_duplicate_rows(data)
    /\ prev' = data
    /\ op' = "remove_duplicate_rows"
    /\ UNCHANGED <<missing_value_strategies, numeric_precision, aligner_vars, io_vars>>

HandleMissingValues ==
    /\ data' = handle_missing_values(data, missing_value_strategies, numeric_precision)
    /\ prev' = data
    /\ op' = "handle_missing_values"
    /\ UNCHANGED <<missing_value_strategies, numeric_precision, aligner_vars, io_vars>>

NormalizeFormats ==
    /\ data' = normalize_formats(data, numeric_precision)
    /\ prev' = data
    /\ op' = "normalize_formats"
    /\ UNCHANGED <<missing_value_strategies, numeric_precision, aligner_vars, io_vars>>

CleanData ==
    /\ data' = clean_data(data, missing_value_strategies, numeric_precision)
    /\ prev' = data
    /\ op' = "clean_data"
    /\ UNCHANGED <<missing_value_strategies, numeric_precision, aligner_vars, io_vars>>

SetTargetTimeInterval ==
    /\ op = "none"
    /\ \E interval_seconds \in Intervals : target_time_interval' = interval_seconds
    /\ UNCHANGED <<data, prev, op, missing_value_strategies, numeric_precision,
                   align_call, utc_offset, io_vars>>

\* one call of a run is modelled: a second call would read the dates the
\* first one wrote
AlignTimeSeriesData ==
    /\ op = "none"
    /\ \E call \in Calls :
           LET r == align_time_series_data(data, call.time_column_name,
                                           call.dependent_columns,
                                           call.independent_columns,
                                           target_time_interval, utc_offset)
           IN  /\ data' = r.data
               /\ align_call' = [time_column_name    |-> call.time_column_name,
                                 dependent_columns   |-> call.dependent_columns,
                                 independent_columns |-> call.independent_columns,
                                 outcome             |-> r.outcome,
                                 original_times      |-> r.original_times,
                                 target_times        |-> r.target_times]
    /\ prev' = data
    /\ op' = "align_time_series_data"
    /\ UNCHANGED <<missing_value_strategies, numeric_precision,
                   target_time_interval, utc_offset, io_vars>>

Next ==
    \/ SetMissingValueStrategies
    \/ SetNumericPrecision
    \/ RemoveDuplicateRows
    \/ HandleMissingValues
    \/ NormalizeFormats
    \/ CleanData

NextImpute ==
    \/ SetMissingValueStrategies
    \/ SetNumericPrecision
    \/ HandleMissingValues

NextNormalize ==
    \/ SetNumericPrecision
    \/ NormalizeFormats

Spec == Init /\ [][Next]_vars

SpecImpute == InitImpute /\ [][NextImpute]_vars

SpecNormalize == InitNormalize /\ [][NextNormalize]_vars

NextAlign ==
    \/ SetTargetTimeInterval
    \/ AlignTimeSeriesData

SpecAlign == InitAlign /\ [][NextAlign]_vars

----------------------------------------------------------------------------
(* CsvParser: inputs and state machine *)

\* characters of the lines given to split_line: a letter, the two delimiters
\* of the tests, the quote and the blank
LineChars == {"a", ",", ";", "\"", " "}

Lines == SeqsUpTo(LineChars, MaxLineLen)

\* the delimiters the tests configure
Delimiters == {",", ";"}

\* the lines the files are made of: two columns, two cells with a blank to
\* trim, one cell, an empty line
FileLines ==
    { <<"a", ",", "b">>, <<"1", ",", " ", "2">>, <<"3">>, <<>> }

\* the lines with a line feed between them
RECURSIVE JoinLines(_)
JoinLines(lines) ==
    IF lines = <<>> THEN <<>>
    ELSE IF Len(lines) = 1 THEN lines[1]
    ELSE lines[1] \o <<"\n">> \o JoinLines(Tail(lines))

Files ==
    {[is_open |-> TRUE, content |-> JoinLines(lines)] :
        lines \in SeqsUpTo(FileLines, MaxFileLines)} \cup {NoFile}

FileName == <<"d", ".", "c", "s", "v">>

InitParser ==
    /\ Constructed
    /\ data = <<>>
    /\ prev = data

\* CsvParser::set_delimiter, called before the parser is used
SetDelimiter ==
    /\ ~split_call.called
    /\ load_call.loads = 0
    /\ \E delimiter \in Delimiters :
           parser' = [parser EXCEPT !.delimiter = delimiter]
    /\ UNCHANGED <<data, prev, op, missing_value_strategies, numeric_precision,
                   aligner_vars, split_call, load_call, config_vars, run_call>>

\* one call of split_line
SplitLine ==
    /\ ~split_call.called
    /\ \E line \in Lines :
           split_call' = [line   |-> line,
                          result |-> split_line(line, parser.delimiter),
                          called |-> TRUE]
    /\ UNCHANGED <<data, prev, op, missing_value_strategies, numeric_precision,
                   aligner_vars, parser, load_call, config_vars, run_call>>

LoadFile ==
    /\ load_call.loads < MaxLoads
    /\ \E file \in Files :
           LET r == load_file(parser, FileName, file)
           IN  /\ parser' = r.parser
               /\ load_call' = [file           |-> file,
                                returned       |-> r.returned,
                                loads          |-> load_call.loads + 1,
                                headers_before |-> parser.headers,
                                data_before    |-> parser.data]
    /\ UNCHANGED <<data, prev, op, missing_value_strategies, numeric_precision,
                   aligner_vars, split_call, config_vars, run_call>>

NextSplit ==
    \/ SetDelimiter
    \/ SplitLine

SpecSplit == InitParser /\ [][NextSplit]_vars

NextLoad ==
    \/ SetDelimiter
    \/ LoadFile

SpecLoad == InitParser /\ [][NextLoad]_vars

----------------------------------------------------------------------------
(* ConfigManager: inputs and state machine *)

\* the file names and the column name of test_config_file_operations
InputFiles == {<<"i", "n", ".", "c", "s", "v">>}

OutputFiles == {<<"o", ".", "c", "s", "v">>}

TimeColumnNames == {<<"t", "i", "m", "e", "s", "t", "a", "m", "p">>}

\* the delimiters of comma, semicolon and tab separated files
ConfigDelimiters == {",", ";", "\t"}

VariableNames == {<<"v", "1">>, <<"w">>}

VariableLists == SeqsUpTo(VariableNames, MaxNames)

\* the orders the unordered map is iterated in: the order of insertion and
\* its reverse
Reverse(s) == [i \in 1..Len(s) |-> s[Len(s) + 1 - i]]

IterationOrders == {DefaultKeys, Reverse(DefaultKeys)}

InitConfig ==
    /\ Constructed
    /\ data = <<>>
    /\ prev = data

ConfigUnchanged ==
    UNCHANGED <<data, prev, op, missing_value_strategies, numeric_precision,
                aligner_vars, parser_vars, run_call>>

Given(value) == [set |-> TRUE, value |-> value]

SetInputFile ==
    /\ ~config_file.is_open
    /\ \E filename \in InputFiles :
           /\ config' = set_input_file(config, filename)
           /\ given' = [given EXCEPT !.input_file = Given(filename)]
    /\ UNCHANGED <<config_file, loaded_config>>
    /\ ConfigUnchanged

SetOutputFile ==
    /\ ~config_file.is_open
    /\ \E filename \in OutputFiles :
           /\ config' = set_output_file(config, filename)
           /\ given' = [given EXCEPT !.output_file = Given(filename)]
    /\ UNCHANGED <<config_file, loaded_config>>
    /\ ConfigUnchanged

SetTimeColumn ==
    /\ ~config_file.is_open
    /\ \E column_name \in TimeColumnNames :
           /\ config' = set_time_column(config, column_name)
           /\ given' = [given EXCEPT !.time_column = Given(column_name)]
    /\ UNCHANGED <<config_file, loaded_config>>
    /\ ConfigUnchanged

SetConfigDelimiter ==
    /\ ~config_file.is_open
    /\ \E delimiter \in ConfigDelimiters :
           /\ config' = set_delimiter(config, delimiter)
           /\ given' = [given EXCEPT !.delimiter = Given(<<delimiter>>)]
    /\ UNCHANGED <<config_file, loaded_config>>
    /\ ConfigUnchanged

SetDependentVariables ==
    /\ ~config_file.is_open
    /\ \E variables \in VariableLists :
           /\ config' = set_dependent_variables(config, variables)
           /\ given' = [given EXCEPT !.dependent_variables = Given(variables)]
    /\ UNCHANGED <<config_file, loaded_config>>
    /\ ConfigUnchanged

SetIndependentVariables ==
    /\ ~config_file.is_open
    /\ \E variables \in VariableLists :
           /\ config' = set_independent_variables(config, variables)
           /\ given' = [given EXCEPT !.independent_variables = Given(variables)]
    /\ UNCHANGED <<config_file, loaded_config>>
    /\ ConfigUnchanged

SaveToFile ==
    /\ ~config_file.is_open
    /\ \E order \in IterationOrders : config_file' = save_to_file(config, order)
    /\ UNCHANGED <<config, given, loaded_config>>
    /\ ConfigUnchanged

\* load_from_file of the second, new ConfigManager
LoadFromFile ==
    /\ ~loaded_config.called
    /\ LET r == load_from_file(loaded_config.settings, config_file)
       IN  loaded_config' = [settings |-> r.settings, returned |-> r.returned,
                             called |-> TRUE]
    /\ UNCHANGED <<config, given, config_file>>
    /\ ConfigUnchanged

NextConfig ==
    \/ SetInputFile
    \/ SetOutputFile
    \/ SetTimeColumn
    \/ SetConfigDelimiter
    \/ SetDependentVariables
    \/ SetIndependentVariables
    \/ SaveToFile
    \/ LoadFromFile

SpecConfig == InitConfig /\ [][NextConfig]_vars

----------------------------------------------------------------------------
(* AdapterApplication: inputs and state machine *)

\* the data lines of the input files: a row, a row with an empty cell, a
\* third row
RunLines ==
    { <<"0", ",", "1", "0">>, <<"1", ",">>, <<"3", ",", "4", "0">> }

\* the input files: the header line "t,v" and data lines, each line ended
RunFiles ==
    {[is_open |-> TRUE,
      content |-> OutputLines(<<<<<<"t", ",", "v">>>>>> \o
                              [k \in 1..Len(lines) |-> <<lines[k]>>], ",")] :
        lines \in SeqsUpTo(RunLines, MaxRunRows)} \cup {NoFile}

\* the time column of the configuration: the column of the files, the
\* default "time", none
RunTimeColumns == {<<"t">>, <<"t", "i", "m", "e">>, <<>>}

\* the target_time_interval of the configuration, "1.0" by default
RunInterval == [neg |-> FALSE, num |-> 1, den |-> 1]

InitRun ==
    /\ Constructed
    /\ data = <<>>
    /\ prev = data

\* what is recorded of a run: its arguments, its exit code and the locals
\* of its steps
RunCall(file, delimiter, time_column, r) ==
    [called        |-> TRUE,
     file          |-> file,
     delimiter     |-> delimiter,
     time_column   |-> time_column,
     returned      |-> r.returned,
     headers       |-> r.headers,
     parsed        |-> r.parsed,
     cleaned       |-> r.cleaned,
     final_headers |-> r.final_headers,
     final_data    |-> r.final_data,
     output        |-> r.output]

\* one run of the application
Run ==
    /\ ~run_call.called
    /\ \E file \in RunFiles, time_column \in RunTimeColumns, writable \in BOOLEAN :
           run_call' = RunCall(file, ",", time_column,
                               run(file, ",", time_column, RunInterval, writable, utc_offset))
    /\ UNCHANGED <<data, prev, op, missing_value_strategies, numeric_precision,
                   aligner_vars, parser_vars, config_vars>>

NextRun == Run

SpecRun == InitRun /\ [][NextRun]_vars

----------------------------------------------------------------------------
(* Properties of remove_duplicate_rows *)

\* indices of the data rows of t that equal no earlier data row
FirstOccurrences(t) == {i \in 2..Len(t) : \A j \in 2..(i - 1) : t[j] # t[i]}

\* the n-th smallest element of the set of numbers S
NthOf(S, n) == CHOOSE i \in S : Cardinality({j \in S : j < i}) = n - 1

DataRowSet(t) == {t[i] : i \in 2..Len(t)}

\* C1: for a table with at least a header row, remove_duplicate_rows returns
\* row 0 followed by exactly the first occurrence of each distinct data row,
\* compared against all earlier data rows, in their input order
C1_FirstOccurrencesKept ==
    (op = "remove_duplicate_rows" /\ Len(prev) >= 1) =>
        LET F == FirstOccurrences(prev)
        IN  /\ Len(data) = 1 + Cardinality(F)
            /\ data[1] = prev[1]
            /\ \A k \in 1..Cardinality(F) : data[k + 1] = prev[NthOf(F, k)]

\* a duplicate of a row that is not the row right before it was removed
C1_Witness ==
    /\ op = "remove_duplicate_rows"
    /\ Len(data) = Len(prev) - 1
    /\ \E i, j \in 2..Len(prev) :
          j + 1 < i /\ prev[i] = prev[j] /\ prev[j + 1] # prev[j]

\* C2: after remove_duplicate_rows the row count has not grown, the header
\* is unchanged, the set of distinct data rows is the input's, and the number
\* of rows removed is the number of data rows minus the number of distinct ones
C2_DedupCounts ==
    op = "remove_duplicate_rows" =>
        /\ Len(data) <= Len(prev)
        /\ Len(prev) >= 1 => (Len(data) >= 1 /\ data[1] = prev[1])
        /\ DataRowSet(data) = DataRowSet(prev)
        /\ Len(prev) >= 1 =>
              Len(prev) - Len(data) = (Len(prev) - 1) - Cardinality(DataRowSet(prev))

\* rows were removed from a table that has a data row equal to its header
C2_Witness ==
    /\ op = "remove_duplicate_rows"
    /\ Len(data) < Len(prev)
    /\ \E i \in 2..Len(data) : data[i] = data[1]

----------------------------------------------------------------------------
(* Shapes of cell values, written from the specification's wording *)

MissingMarkers ==
    { <<>>, <<"N", "a", "N">>, <<"n", "a", "n">>, <<"N", "A">>,
      <<"N", "U", "L", "L">> }

DigitChars == {"0", "1", "2", "3", "4", "5", "6", "7", "8", "9"}

\* s[a..b] is a possibly empty run of digits
DigitRun(s, a, b) == \A i \in a..b : s[i] \in DigitChars

\* optional minus, optional integer digits, optional point, at least one digit
NumericPattern(s) ==
    \E m \in 0..1, k \in 0..Len(s), d \in 0..1 :
        /\ m + k + d < Len(s)
        /\ m = 1 => s[1] = "-"
        /\ DigitRun(s, m + 1, m + k)
        /\ d = 1 => s[m + k + 1] = "."
        /\ DigitRun(s, m + k + d + 1, Len(s))

\* s is fixed-point text with p decimals: optional minus, digits, and, when
\* p > 0, a point followed by exactly p digits
IsFixedPoint(s, p) ==
    LET m == IF Len(s) > 0 /\ s[1] = "-" THEN 1 ELSE 0
        n == IF p = 0 THEN Len(s) ELSE Len(s) - p - 1
    IN  /\ n > m
        /\ DigitRun(s, m + 1, n)
        /\ p > 0 => (s[n + 1] = "." /\ DigitRun(s, n + 2, Len(s)))

RECURSIVE Gcd(_, _)
Gcd(a, b) == IF b = 0 THEN a ELSE Gcd(b, a % b)

\* the number written by the fixed-point text s: sign and units of 10^-p
FixedUnits(s, p) ==
    LET m == IF s[1] = "-" THEN 1 ELSE 0
    IN  [neg |-> m = 1,
         units |-> DigitsVal(SelectSeq(SubSeq(s, m + 1, Len(s)),
                                       LAMBDA c : c # "."))]

\* the fixed-point text s with p decimals is the number neg, num/den rounded
\* to the nearest multiple of 10^-p
NearestFixed(s, p, neg, num, den) ==
    LET g == Gcd(den, Pow10(p))
        u == FixedUnits(s, p)
        e == u.units * (den \div g) - num * (Pow10(p) \div g)
    IN  /\ IsFixedPoint(s, p)
        /\ u.neg = neg
        /\ 2 * (IF e < 0 THEN 0 - e ELSE e) <= den \div g

NoDuplicateRows(t) == \A i, j \in 2..Len(t) : i # j => t[i] # t[j]

NoMissingCells(t) ==
    \A r \in 2..Len(t) : \A c \in 1..Len(t[r]) : t[r][c] \notin MissingMarkers

\* the cells of row r >= 1 and their text in tables a and b differ only
\* where the predicate allows it
SameShape(a, b) ==
    /\ Len(a) = Len(b)
    /\ \A r \in 1..Len(a) : Len(a[r]) = Len(b[r])

----------------------------------------------------------------------------
(* Properties of clean_data *)

\* C3 as stated: cleaning a table without duplicate rows and without missing
\* values leaves every row byte-identical
C3_CleanNoOp ==
    (op = "clean_data" /\ NoDuplicateRows(prev) /\ NoMissingCells(prev)) =>
        data = prev

\* C3 amended: cleaning a table without duplicate rows and without missing
\* values keeps the rows, their widths, the header and every cell that does
\* not match the numeric pattern byte-identical, and rewrites each data cell
\* that matches the numeric pattern to fixed-point text of the same number
\* with the configured precision
C3_CleanOnlyNormalizes ==
    (op = "clean_data" /\ NoDuplicateRows(prev) /\ NoMissingCells(prev)) =>
        /\ SameShape(data, prev)
        /\ Len(prev) >= 1 => data[1] = prev[1]
        /\ \A r \in 2..Len(prev) : \A c \in 1..Len(prev[r]) :
              IF NumericPattern(prev[r][c])
              THEN LET x == stod(prev[r][c])
                   IN  NearestFixed(data[r][c], numeric_precision,
                                    x.neg, x.num, x.den)
              ELSE data[r][c] = prev[r][c]

\* a table without duplicates and missing values was cleaned; one numeric
\* cell was rewritten and a date cell and a text cell were there
C3_Witness ==
    /\ op = "clean_data"
    /\ NoDuplicateRows(prev)
    /\ NoMissingCells(prev)
    /\ Len(prev) >= 3
    /\ data # prev
    /\ \E r \in 2..Len(prev) : \E c \in 1..Len(prev[r]) :
          ~NumericPattern(prev[r][c]) /\ Len(prev[r][c]) > 1

\* C9: clean_data on a non-empty table gives what remove_duplicate_rows, then
\* handle_missing_values, then normalize_formats give on it; an empty table
\* is left as it is
C9_CleanIsThreePasses ==
    op = "clean_data" =>
        IF Len(prev) = 0 THEN data = prev
        ELSE data = normalize_formats(
                        handle_missing_values(remove_duplicate_rows(prev),
                                              missing_value_strategies,
                                              numeric_precision),
                        numeric_precision)

\* a cleaning call removed a duplicate row from a table in which two other
\* rows differ only in the format of a number: both are kept, and they are
\* equal once normalized
C9_Witness ==
    /\ op = "clean_data"
    /\ Len(data) < Len(prev)
    /\ \E i, j \in 2..Len(data) : i # j /\ data[i] = data[j]

----------------------------------------------------------------------------
(* Properties of handle_missing_values *)

\* data rows of t that have a missing marker, a value, a numeric value in
\* column c
MissingRows(t, c) ==
    {r \in 2..Len(t) : c <= Len(t[r]) /\ t[r][c] \in MissingMarkers}

PresentRows(t, c) ==
    {r \in 2..Len(t) : c <= Len(t[r]) /\ t[r][c] \notin MissingMarkers}

NumericRows(t, c) == {r \in PresentRows(t, c) : NumericPattern(t[r][c])}

\* at least 80% of the non-missing values of column c match the numeric pattern
JudgedNumeric(t, c) ==
    /\ PresentRows(t, c) # {}
    /\ 5 * Cardinality(NumericRows(t, c)) >= 4 * Cardinality(PresentRows(t, c))

ActiveStrategy ==
    IF Len(missing_value_strategies) = 0 THEN "none"
    ELSE missing_value_strategies[1]

\* a common denominator of the numeric values of column c
ColumnDen(t, c) ==
    LET dens == {stod(t[r][c]).den : r \in NumericRows(t, c)}
    IN  IF dens = {} THEN 1 ELSE CHOOSE d \in dens : \A e \in dens : e <= d

\* the value of the numeric cell at row r of column c, in units of 1/ColumnDen
Units(t, c, r) ==
    LET x == stod(t[r][c])
    IN  Signed(x) * (ColumnDen(t, c) \div x.den)

RECURSIVE SumUnits(_, _, _)
SumUnits(t, c, S) ==
    IF S = {} THEN 0
    ELSE LET r == CHOOSE q \in S : TRUE
         IN  Units(t, c, r) + SumUnits(t, c, S \ {r})

Abs(n) == IF n < 0 THEN 0 - n ELSE n

\* the k-th smallest of the numeric values of column c, in units
KthUnits(t, c, k) ==
    LET N == NumericRows(t, c)
        r == CHOOSE q \in N :
                /\ Cardinality({o \in N : Units(t, c, o) < Units(t, c, q)}) < k
                /\ Cardinality({o \in N : Units(t, c, o) <= Units(t, c, q)}) >= k
    IN  Units(t, c, r)

\* C4: a second handle_missing_values call right after a first one changes
\* nothing, and after a call no cell of a column that had a non-missing
\* value holds a missing marker
C4_ImputeIdempotent ==
    [][ /\ (op = "handle_missing_values" /\ op' = "handle_missing_values")
            => data' = data
        /\ op' = "handle_missing_values" =>
              \A c \in 1..Len(prev'[1]) :
                  PresentRows(prev', c) # {} => MissingRows(data', c) = {}
      ]_vars

\* a call filled two missing cells of one column
C4_Witness ==
    /\ op = "handle_missing_values"
    /\ \E c \in 1..Len(prev[1]) :
          /\ Cardinality(MissingRows(prev, c)) >= 2
          /\ PresentRows(prev, c) # {}
          /\ MissingRows(data, c) = {}

\* C5: handle_missing_values overwrites a data cell exactly when the cell is
\* "", "NaN", "nan", "NA" or "NULL" and its column has a data cell that is
\* none of these; a column whose data cells are all missing is untouched
C5_MissingExactly ==
    op = "handle_missing_values" =>
        /\ SameShape(data, prev)
        /\ \A r \in 2..Len(prev) : \A c \in 1..Len(prev[r]) :
              data[r][c] # prev[r][c]
                  <=> (prev[r][c] \in MissingMarkers /\ PresentRows(prev, c) # {})

\* a call replaced "NULL" and kept "null" in one column, and left a column
\* of missing cells alone
C5_Witness ==
    /\ op = "handle_missing_values"
    /\ \E r, q \in 2..Len(prev) :
          /\ prev[r][1] = <<"N", "U", "L", "L">>
          /\ data[r][1] # prev[r][1]
          /\ prev[q][1] = <<"n", "u", "l", "l">>
          /\ data[q][1] = prev[q][1]
    /\ PresentRows(prev, 2) = {}
    /\ MissingRows(data, 2) # {}

\* C6: with strategy mean, each missing cell of a column judged numeric
\* becomes the mean of the column's non-missing numeric values (the others
\* are not counted), as fixed-point text with the configured precision; the
\* data column "10", "", "30" with precision 2 gets "20.00"
C6_MeanReplacement ==
    (op = "handle_missing_values" /\ ActiveStrategy = "mean") =>
        /\ \A c \in 1..Len(prev[1]) :
              JudgedNumeric(prev, c) =>
                  \A r \in MissingRows(prev, c) :
                      LET sum == SumUnits(prev, c, NumericRows(prev, c))
                      IN  NearestFixed(data[r][c], numeric_precision, sum < 0,
                                       Abs(sum),
                                       ColumnDen(prev, c)
                                           * Cardinality(NumericRows(prev, c)))
        /\ ( /\ Len(prev) = 4
             /\ prev[2][1] = <<"1", "0">>
             /\ prev[3][1] = <<>>
             /\ prev[4][1] = <<"3", "0">>
             /\ numeric_precision = 2 )
              => data[3][1] = <<"2", "0", ".", "0", "0">>

\* the mean was written into a column that holds a text value next to its
\* numeric ones
C6_Witness ==
    /\ op = "handle_missing_values"
    /\ ActiveStrategy = "mean"
    /\ JudgedNumeric(prev, 1)
    /\ NumericRows(prev, 1) # PresentRows(prev, 1)
    /\ MissingRows(prev, 1) # {}
    /\ MissingRows(data, 1) = {}

\* the median of the numeric values of column c, as a fraction num/den of
\* units
MedianUnits(t, c) ==
    LET n == Cardinality(NumericRows(t, c))
    IN  IF n % 2 = 1
        THEN [num |-> KthUnits(t, c, (n + 1) \div 2), den |-> 1]
        ELSE [num |-> KthUnits(t, c, n \div 2) + KthUnits(t, c, n \div 2 + 1),
              den |-> 2]

\* C7: with strategy median, each missing cell of a column judged numeric
\* becomes the median of the column's non-missing numeric values (the middle
\* one of the sorted values, or the average of the two middle ones), as
\* fixed-point text with the configured precision; a column without a
\* missing cell is unchanged
C7_MedianReplacement ==
    op = "handle_missing_values" =>
        /\ ActiveStrategy = "median" =>
              \A c \in 1..Len(prev[1]) :
                  JudgedNumeric(prev, c) =>
                      \A r \in MissingRows(prev, c) :
                          LET m == MedianUnits(prev, c)
                          IN  NearestFixed(data[r][c], numeric_precision,
                                           m.num < 0, Abs(m.num),
                                           ColumnDen(prev, c) * m.den)
        /\ \A c \in 1..Len(prev[1]) :
              MissingRows(prev, c) = {} =>
                  \A r \in PresentRows(prev, c) : data[r][c] = prev[r][c]

\* the median of three values that are not in sorted order was written
C7_Witness ==
    /\ op = "handle_missing_values"
    /\ ActiveStrategy = "median"
    /\ JudgedNumeric(prev, 1)
    /\ Cardinality(NumericRows(prev, 1)) = 3
    /\ \E r, q \in NumericRows(prev, 1) :
          r < q /\ Units(prev, 1, q) < Units(prev, 1, r)
    /\ MissingRows(prev, 1) # {}
    /\ MissingRows(data, 1) = {}

\* C8 as stated: every replacement value written by handle_missing_values is
\* fixed-point text with the configured precision
C8_AllReplacementsFixedPoint ==
    op = "handle_missing_values" =>
        \A r \in 2..Len(prev) : \A c \in 1..Len(prev[r]) :
            data[r][c] # prev[r][c] => IsFixedPoint(data[r][c], numeric_precision)

\* C8 amended: a replacement value computed as the mean or median of a
\* column judged numeric is fixed-point text with the configured precision;
\* every other replacement value is the text "0"
C8_ComputedReplacementsFixedPoint ==
    op = "handle_missing_values" =>
        \A r \in 2..Len(prev) : \A c \in 1..Len(prev[r]) :
            data[r][c] # prev[r][c] =>
                IF ActiveStrategy \in {"mean", "median"} /\ JudgedNumeric(prev, c)
                THEN IsFixedPoint(data[r][c], numeric_precision)
                ELSE data[r][c] = <<"0">>

\* with precision 1, one column got a computed replacement and another "0"
C8_Witness ==
    /\ op = "handle_missing_values"
    /\ numeric_precision = 1
    /\ \E r, q \in 2..Len(prev) :
          /\ data[r][1] # prev[r][1]
          /\ data[r][1] = <<"0">>
          /\ data[q][2] # prev[q][2]
          /\ Len(data[q][2]) = 3

----------------------------------------------------------------------------
(* Properties of normalize_formats *)

\* C10: normalize_formats rewrites each data cell that matches the numeric
\* pattern to fixed-point text of the same number with the configured
\* precision and leaves everything else as it was: the other cells (text,
\* dates), the header row, the number of rows and their widths
C10_NormalizeNumericOnly ==
    op = "normalize_formats" =>
        /\ SameShape(data, prev)
        /\ Len(prev) >= 1 => data[1] = prev[1]
        /\ \A r \in 2..Len(prev) : \A c \in 1..Len(prev[r]) :
              IF NumericPattern(prev[r][c])
              THEN LET x == stod(prev[r][c])
                   IN  NearestFixed(data[r][c], numeric_precision,
                                    x.neg, x.num, x.den)
              ELSE data[r][c] = prev[r][c]

\* under a header of numbers a numeric cell was rewritten, next to a date
\* and to "5.", which is not numeric
C10_Witness ==
    /\ op = "normalize_formats"
    /\ Len(prev) = 3
    /\ NumericPattern(prev[1][1])
    /\ \E r \in 2..3 : \E c \in 1..Len(prev[r]) :
          NumericPattern(prev[r][c]) /\ data[r][c] # prev[r][c]
    /\ \E r \in 2..3 : prev[r][1] = <<"5", ".">> /\ data[r][1] = <<"5", ".">>
    /\ \E r \in 2..3 : Len(prev[r][1]) = 10 /\ ~NumericPattern(prev[r][1])

----------------------------------------------------------------------------
(* Properties of align_time_series_data *)

AlignCalled == op = "align_time_series_data"

\* the header of the table the call was made on names the time column
NameInHeader ==
    /\ Len(prev) > 0
    /\ \E c \in 1..Len(prev[1]) : prev[1][c] = align_call.time_column_name

\* the first column of the header that has the name of the time column
TimeIndex ==
    CHOOSE c \in 1..Len(prev[1]) :
        /\ prev[1][c] = align_call.time_column_name
        /\ \A b \in 1..(c - 1) : prev[1][b] # align_call.time_column_name

\* the data rows of the table the call was made on whose time value one of
\* the three rules parses, and the rows whose time value none parses
ParsedRows ==
    {r \in 2..Len(prev) : parse_time_value(prev[r][TimeIndex], utc_offset).kind # "none"}

UnparsedRows == (2..Len(prev)) \ ParsedRows

\* the call got as far as building the resampled table
Resampled == AlignCalled /\ NameInHeader /\ ParsedRows # {}

\* C11: a call on an empty table, with a time column name that is not in
\* row 0, or on a table none of whose time values parses, returns without
\* an exception and leaves the table as it was
C11_NoOpLeavesTable ==
    (AlignCalled /\ ~(NameInHeader /\ ParsedRows # {}))
        => /\ data = prev
           /\ align_call.outcome \in {"no_data", "not_found", "unparsed"}

\* a call on a table with data rows whose time values all fail to parse
C11_Witness ==
    /\ AlignCalled
    /\ NameInHeader
    /\ Len(prev) > 2
    /\ ParsedRows = {}
    /\ data = prev

\* the table the call was made on without the rows whose time value does
\* not parse
ParsedTable ==
    <<prev[1]>> \o
    SelectSeq(Tail(prev),
              LAMBDA row : parse_time_value(row[TimeIndex], utc_offset).kind # "none")

\* C12: when some but not all time values fail to parse, the rows of the
\* unparseable values are left out of the interpolation source data: the
\* result is the one the call gives on the table without these rows
C12_UnparsedRowsExcluded ==
    (Resampled /\ UnparsedRows # {})
        => data = align_time_series_data(ParsedTable, align_call.time_column_name,
                                         align_call.dependent_columns,
                                         align_call.independent_columns,
                                         target_time_interval, utc_offset).data

\* a time of the model in tenths of a second
Tenths(x) == Signed(x) * (10 \div x.den)

\* the smallest and the largest parsed time of the call, in tenths
MinTenths ==
    CHOOSE s \in {Tenths(align_call.original_times[i]) : i \in 1..Len(align_call.original_times)} :
        \A i \in 1..Len(align_call.original_times) : s <= Tenths(align_call.original_times[i])

MaxTenths ==
    CHOOSE e \in {Tenths(align_call.original_times[i]) : i \in 1..Len(align_call.original_times)} :
        \A i \in 1..Len(align_call.original_times) : e >= Tenths(align_call.original_times[i])

\* C13: for parsed times with minimum s and maximum e > s and an interval
\* d > 0 the grid is s, s + d, s + 2d, ... up to the largest of these values
\* that is not above e
C13_UniformGrid ==
    LET d == Tenths(target_time_interval)
    IN  (Resampled /\ MaxTenths > MinTenths /\ d > 0)
            => /\ Len(align_call.target_times) = (MaxTenths - MinTenths) \div d + 1
               /\ \A k \in 1..Len(align_call.target_times) :
                      Tenths(align_call.target_times[k]) = MinTenths + (k - 1) * d

\* the times 0, 1, 3 with the interval 1 give the grid 0, 1, 2, 3
C13_Witness ==
    /\ Resampled
    /\ Tenths(target_time_interval) = 10
    /\ [i \in 1..Len(align_call.original_times) |-> Tenths(align_call.original_times[i])]
           = <<0, 10, 30>>
    /\ [k \in 1..Len(align_call.target_times) |-> Tenths(align_call.target_times[k])]
           = <<0, 10, 20, 30>>

\* C14: when the largest parsed time is not above the smallest one, or the
\* interval is not above zero, the call returns with the header row as the
\* only row of the table
C14_EmptyGridHeaderOnly ==
    (Resampled /\ (MaxTenths <= MinTenths \/ Tenths(target_time_interval) <= 0))
        => /\ data = <<prev[1]>>
           /\ align_call.outcome = "aligned"

\* two data rows that share one timestamp, with the default interval
C14_Witness ==
    /\ Resampled
    /\ Len(align_call.original_times) = 2
    /\ MaxTenths = MinTenths
    /\ Tenths(target_time_interval) = 10
    /\ Len(prev) = 3
    /\ data = <<prev[1]>>

\* the parsed time values of the call were all read as numbers of seconds
NumericTimeColumn ==
    \A r \in ParsedRows : parse_time_value(prev[r][TimeIndex], utc_offset).kind = "numeric"

\* the parsed time values of the call were all read as dates
DateTimeColumn ==
    \A r \in ParsedRows : parse_time_value(prev[r][TimeIndex], utc_offset).kind # "numeric"

\* the text s is a number, digits with an optional fraction, of the given
\* value in tenths
NumberOfTenths(s, tenths) ==
    /\ numeric_pattern(s)
    /\ stod(s).num * 10 = tenths * stod(s).den

\* the text s has the form YYYY-MM-DDTHH:MM:SS
IsoDateTime(s) ==
    /\ Len(s) = 19
    /\ \A i \in {1, 2, 3, 4, 6, 7, 9, 10, 12, 13, 15, 16, 18, 19} : s[i] \in DigitChars
    /\ s[5] = "-" /\ s[8] = "-" /\ s[11] = "T" /\ s[14] = ":" /\ s[17] = ":"

\* C15: the time field of each resampled row is the grid timestamp in the
\* representation the time column was parsed from: a number for a column of
\* numeric seconds, a YYYY-MM-DDTHH:MM:SS string for a column of dates
C15_TimeRepresentationKept ==
    Resampled =>
        \A k \in 1..Len(align_call.target_times) :
            /\ NumericTimeColumn
                   => NumberOfTenths(data[k + 1][TimeIndex],
                                     Tenths(align_call.target_times[k]))
            /\ (DateTimeColumn /\ ~NumericTimeColumn)
                   => IsoDateTime(data[k + 1][TimeIndex])

\* C16: after a call that resampled the table, row 0 is the header of the
\* input, and the rows after it are one per grid timestamp, in the order of
\* the grid, each as wide as the header
C16_HeaderAndGridRows ==
    Resampled =>
        /\ data[1] = prev[1]
        /\ Len(data) = 1 + Len(align_call.target_times)
        /\ \A k \in 1..Len(align_call.target_times) :
               /\ Len(data[k + 1]) = Len(prev[1])
               /\ data[k + 1][TimeIndex] = format_time_value(align_call.target_times[k])

\* a table with the time column last and irregular times, resampled to
\* more rows than it had
C16_Witness ==
    /\ Resampled
    /\ TimeIndex = 2
    /\ Len(align_call.target_times) > Len(prev) - 1
    /\ Len(data) = 1 + Len(align_call.target_times)
    /\ data[1] = prev[1]

\* every data row of the table of the call has a time value that parses, so
\* interpolate_values gets as many values as times and scans for a bracket
Interpolated == Resampled /\ UnparsedRows = {}

\* the parsed time of sample i, in row order, in tenths
SampleTenths(i) == Tenths(align_call.original_times[i])

\* the samples i whose time and the time of the next sample, in row order,
\* enclose the target
Enclosing(target) ==
    {i \in 1..(Len(align_call.original_times) - 1) :
         SampleTenths(i) <= target /\ target <= SampleTenths(i + 1)}

\* the bracket of the specification: the first enclosing pair of adjacent
\* samples, or the first and the last sample
BracketOf(target) ==
    IF Enclosing(target) = {}
    THEN [lower_idx |-> 1, upper_idx |-> Len(align_call.original_times)]
    ELSE LET i == CHOOSE h \in Enclosing(target) : \A g \in Enclosing(target) : h <= g
         IN  [lower_idx |-> i, upper_idx |-> i + 1]

\* C17: for every grid time, interpolate_values takes as bracket the first
\* pair of adjacent samples, in row order, that encloses it, and the first
\* and the last sample when no pair does
C17_FirstEnclosingPair ==
    Interpolated =>
        \A k \in 1..Len(align_call.target_times) :
            find_bracket(align_call.original_times, align_call.target_times[k])
                = BracketOf(Tenths(align_call.target_times[k]))

\* unsorted rows: one grid time is enclosed by the second pair of samples
\* only, another one by no pair
C17_Witness ==
    /\ Interpolated
    /\ \E k \in 1..Len(align_call.target_times) :
           Enclosing(Tenths(align_call.target_times[k])) = {2}
    /\ \E k \in 1..Len(align_call.target_times) :
           Enclosing(Tenths(align_call.target_times[k])) = {}

\* the columns of the table of the call other than the time column
ValueColumns == (1..Len(prev[1])) \ {TimeIndex}

\* the raw value of sample i, in row order, in column c
SampleValue(i, c) == prev[i + 1][c]

\* the value is numeric for the interpolation: std::stod reads a number
ReadsNumber(v) == stod_prefix(v).ok

\* the number std::stod reads from a value, in tenths
ValueTenths(v) == Signed(stod_prefix(v)) * (10 \div stod_prefix(v).den)

\* the text s is the six-decimal rendering of the fraction n / d, d > 0
SixDecimalsOf(s, n, d) ==
    NearestFixed(s, 6, n < 0, Abs(n), d)

\* the text s is y1 + (y2 - y1) * (t - t1) / (t2 - t1) with six decimals,
\* and y1 when t1 and t2 coincide; times and values are in tenths
LinearValue(s, t, t1, y1, t2, y2) ==
    IF t1 = t2 THEN SixDecimalsOf(s, y1, 10)
    ELSE IF t2 > t1
    THEN SixDecimalsOf(s, y1 * (t2 - t1) + (y2 - y1) * (t - t1), 10 * (t2 - t1))
    ELSE SixDecimalsOf(s, 0 - (y1 * (t2 - t1) + (y2 - y1) * (t - t1)), 10 * (t1 - t2))

\* C18: when both values of the bracket (t1,y1), (t2,y2) of a grid time t
\* are numeric, the resampled value is y1 + (y2 - y1) * (t - t1) / (t2 - t1),
\* and y1 when t1 = t2
C18_LinearInterpolation ==
    Interpolated =>
        \A k \in 1..Len(align_call.target_times) : \A c \in ValueColumns :
            LET t  == Tenths(align_call.target_times[k])
                b  == BracketOf(t)
                v1 == SampleValue(b.lower_idx, c)
                v2 == SampleValue(b.upper_idx, c)
            IN  (ReadsNumber(v1) /\ ReadsNumber(v2))
                    => LinearValue(data[k + 1][c], t,
                                   SampleTenths(b.lower_idx), ValueTenths(v1),
                                   SampleTenths(b.upper_idx), ValueTenths(v2))

\* samples at the times 0, 1, 3 with the values 10, 20, 40: the value at
\* the grid time 2 is 30, the midpoint of the values at 1 and 3
C18_Witness ==
    /\ Interpolated
    /\ TimeIndex = 1
    /\ [i \in 1..Len(align_call.original_times) |-> SampleTenths(i)] = <<0, 10, 30>>
    /\ [i \in 1..3 |-> SampleValue(i, 2)] = NumberPattern
    /\ Len(align_call.target_times) = 4
    /\ Tenths(align_call.target_times[3]) = 20
    /\ BracketOf(20) = [lower_idx |-> 2, upper_idx |-> 3]
    /\ data[4][2] = <<"3", "0", ".", "0", "0", "0", "0", "0", "0">>

\* C19: when std::stod fails on at least one of the two values of the
\* bracket of a grid time, the resampled field is the raw value of the
\* bracket sample whose time is nearer to the grid time, the lower one when
\* both are equally far
C19_NearestNeighbor ==
    Interpolated =>
        \A k \in 1..Len(align_call.target_times) : \A c \in ValueColumns :
            LET t  == Tenths(align_call.target_times[k])
                b  == BracketOf(t)
                v1 == SampleValue(b.lower_idx, c)
                v2 == SampleValue(b.upper_idx, c)
            IN  ~(ReadsNumber(v1) /\ ReadsNumber(v2))
                    => data[k + 1][c] =
                           IF Abs(t - SampleTenths(b.lower_idx))
                                  <= Abs(t - SampleTenths(b.upper_idx))
                           THEN v1 ELSE v2

\* a grid time halfway between two samples with different values, one of
\* them a label: the field is the value of the lower sample; another grid
\* time takes the value of its upper sample
C19_Witness ==
    /\ Interpolated
    /\ \E k \in 1..Len(align_call.target_times) : \E c \in ValueColumns :
           LET t == Tenths(align_call.target_times[k])
               b == BracketOf(t)
           IN  /\ ~ReadsNumber(SampleValue(b.upper_idx, c))
               /\ SampleValue(b.lower_idx, c) # SampleValue(b.upper_idx, c)
               /\ Abs(t - SampleTenths(b.lower_idx)) = Abs(t - SampleTenths(b.upper_idx))
               /\ data[k + 1][c] = SampleValue(b.lower_idx, c)
    /\ \E k \in 1..Len(align_call.target_times) : \E c \in ValueColumns :
           LET t == Tenths(align_call.target_times[k])
               b == BracketOf(t)
           IN  /\ ~ReadsNumber(SampleValue(b.lower_idx, c))
               /\ SampleValue(b.lower_idx, c) # SampleValue(b.upper_idx, c)
               /\ Abs(t - SampleTenths(b.lower_idx)) > Abs(t - SampleTenths(b.upper_idx))
               /\ data[k + 1][c] = SampleValue(b.upper_idx, c)

\* C20: the table a call leaves does not depend on dependent_columns and
\* independent_columns: whatever the two lists of the call were, it is the
\* table the same call with two empty lists gives, so any two choices of the
\* lists give the same table
C20_RolesIgnored ==
    AlignCalled =>
        data = align_time_series_data(prev, align_call.time_column_name, <<>>, <<>>,
                                      target_time_interval, utc_offset).data

\* a call that names the value column as dependent and resamples it
C20_Witness ==
    /\ Interpolated
    /\ align_call.dependent_columns # <<>>
    /\ Len(align_call.target_times) >= 2
    /\ \E k \in 1..Len(align_call.target_times) : \E c \in ValueColumns :
           data[k + 1][c] # <<"0">>
----------------------------------------------------------------------------
(* Properties of CsvParser *)

\* position i of the line stands inside quotes: an odd number of quote
\* characters stands before it
Quoted(line, i) ==
    Cardinality({j \in 1..(i - 1) : line[j] = "\""}) % 2 = 1

\* the positions of the delimiters outside quotes
SplitPoints(line, delimiter) ==
    {i \in 1..Len(line) : line[i] = delimiter /\ ~Quoted(line, i)}

\* the k-th smallest position of a set of positions
KthPoint(points, k) ==
    CHOOSE i \in points : Cardinality({j \in points : j < i}) = k - 1

\* the characters of the line between the (k-1)-th and the k-th delimiter
\* outside quotes
Segment(line, delimiter, k) ==
    LET points == SplitPoints(line, delimiter)
        from == IF k = 1 THEN 1 ELSE KthPoint(points, k - 1) + 1
        to   == IF k = Cardinality(points) + 1 THEN Len(line)
                ELSE KthPoint(points, k) - 1
    IN  SubSeq(line, from, to)

WithoutQuotes(s) == SelectSeq(s, LAMBDA c : c # "\"")

Occurrences(s, c) == Cardinality({i \in 1..Len(s) : s[i] = c})

LoadedLines ==
    SelectSeq(GetLines(load_call.file.content), LAMBDA line : line # <<>>)

\* the lines after the first that have as many fields as the first
WellFormedLines ==
    SelectSeq(Tail(LoadedLines),
              LAMBDA line : Len(split_line(line, parser.delimiter)) =
                            Len(split_line(LoadedLines[1], parser.delimiter)))

Loaded == load_call.loads > 0 /\ load_call.returned

\* C21: after a load_file call that returned true the headers are the fields
\* of the first non-empty line of the file, the stored rows are the fields of
\* the later non-empty lines that have as many fields as the headers, in file
\* order, get_row_count is their number, and get_column of a header name
\* returns the cells of a column of that name in row order; nothing of an
\* earlier load is left, the state depends on the file of this call only
C21_LoadedState ==
    Loaded =>
        IF LoadedLines = <<>>
        THEN parser.headers = <<>> /\ parser.data = <<>>
        ELSE /\ parser.headers = split_line(LoadedLines[1], parser.delimiter)
             /\ \A k \in 1..Len(parser.data) :
                    Len(parser.data[k]) = Len(parser.headers)
             /\ parser.data =
                    [k \in 1..Len(WellFormedLines) |->
                        split_line(WellFormedLines[k], parser.delimiter)]
             /\ get_row_count(parser) = Len(WellFormedLines)
             /\ get_column_count(parser) = Len(parser.headers)
             /\ \A i \in 1..Len(parser.headers) :
                    \E j \in 1..Len(parser.headers) :
                        /\ parser.headers[j] = parser.headers[i]
                        /\ get_column(parser, parser.headers[i]) =
                               [k \in 1..Len(parser.data) |-> parser.data[k][j]]

\* a second load gave other headers than the first, which had stored rows;
\* it stored a row and skipped a line of another width
C21_Witness ==
    /\ Loaded
    /\ load_call.loads = 2
    /\ load_call.data_before # <<>>
    /\ load_call.headers_before # parser.headers
    /\ Len(parser.data) >= 1
    /\ Len(WellFormedLines) < Len(LoadedLines) - 1
----------------------------------------------------------------------------
(* Properties of ConfigManager *)

\* the value a getter of the second manager returns is the value given to the
\* setter of the first, for a setter that was called
Returns(setting, value) == setting.set => value = setting.value

\* C23: after save_to_file of a configured ConfigManager and load_from_file of
\* the written file into a new one, every getter of the new one returns the
\* value that was set: input file, output file, time column, delimiter
\* character and the two lists of variable names
C23_SaveLoadRoundTrip ==
    (loaded_config.called /\ loaded_config.returned) =>
        LET settings == loaded_config.settings
        IN  /\ Returns(given.input_file, get_input_file(settings))
            /\ Returns(given.output_file, get_output_file(settings))
            /\ Returns(given.time_column, get_time_column(settings))
            /\ Returns(given.delimiter, <<get_delimiter(settings)>>)
            /\ Returns(given.dependent_variables,
                       get_dependent_variables(settings))
            /\ Returns(given.independent_variables,
                       get_independent_variables(settings))
----------------------------------------------------------------------------
(* Properties of the imputation rule *)

\* the cell at row r of column c holds the statistic of the active strategy
\* over the numeric values the column had: the mean or the median, as the
\* nearest fixed-point text with the configured precision
HoldsStatistic(r, c) ==
    IF ActiveStrategy = "mean"
    THEN LET sum == SumUnits(prev, c, NumericRows(prev, c))
         IN  NearestFixed(data[r][c], numeric_precision, sum < 0, Abs(sum),
                          ColumnDen(prev, c) * Cardinality(NumericRows(prev, c)))
    ELSE LET m == MedianUnits(prev, c)
         IN  NearestFixed(data[r][c], numeric_precision, m.num < 0, Abs(m.num),
                          ColumnDen(prev, c) * m.den)

\* C24: under the strategies mean and median the missing cells of a column
\* that has a value get the statistic when at least 80% of the column's
\* non-missing data values match the numeric pattern, exactly 80% included,
\* and the fallback "0" otherwise; missing cells do not count in the
\* percentage
C24_EightyPercentRule ==
    (op = "handle_missing_values" /\ ActiveStrategy \in {"mean", "median"}) =>
        \A c \in 1..Len(prev[1]) : \A r \in MissingRows(prev, c) :
            PresentRows(prev, c) # {} =>
                IF 5 * Cardinality(NumericRows(prev, c))
                       >= 4 * Cardinality(PresentRows(prev, c))
                THEN HoldsStatistic(r, c)
                ELSE data[r][c] = <<"0">>

\* a column with four numeric values, one text value and a missing cell (80%
\* of the values, fewer of the cells) got the statistic
C24_Witness ==
    /\ op = "handle_missing_values"
    /\ ActiveStrategy \in {"mean", "median"}
    /\ Cardinality(NumericRows(prev, 1)) = 4
    /\ Cardinality(PresentRows(prev, 1)) = 5
    /\ \E r \in MissingRows(prev, 1) :
           /\ HoldsStatistic(r, 1)
           /\ data[r][1] # <<"0">>

\* the cases in which column c gets the fallback replacement: no strategy,
\* a first strategy that is neither mean nor median (zero and every unknown
\* name), or a column that is not judged numeric
FallbackCase(c) ==
    \/ Len(missing_value_strategies) = 0
    \/ missing_value_strategies[1] \notin {"mean", "median"}
    \/ ~JudgedNumeric(prev, c)

\* the call does what it does with the first entry of the list alone
FirstEntryOnly ==
    data = handle_missing_values(prev,
               IF Len(missing_value_strategies) = 0 THEN <<>>
               ELSE <<missing_value_strategies[1]>>,
               numeric_precision)

\* C25 as stated: the missing cells of a column that has a value become the
\* literal "0" in exactly these cases: the first strategy is zero; the list is
\* empty or starts with a name other than mean, median and zero; the strategy
\* is mean or median and the column is not judged numeric. Only the first
\* entry of the list is consulted
C25_ZeroExactly ==
    op = "handle_missing_values" =>
        /\ \A c \in 1..Len(prev[1]) : \A r \in MissingRows(prev, c) :
               PresentRows(prev, c) # {} =>
                   (data[r][c] = <<"0">> <=> FallbackCase(c))
        /\ FirstEntryOnly

\* C25 amended: in these cases the missing cells become the literal "0", in
\* the remaining case (mean or median, column judged numeric) they become the
\* statistic, which is not the text "0" when the precision is positive; with
\* precision 0 a statistic that rounds to zero reads "0" as well. Only the
\* first entry of the list is consulted
C25_ZeroFallback ==
    op = "handle_missing_values" =>
        /\ \A c \in 1..Len(prev[1]) : \A r \in MissingRows(prev, c) :
               PresentRows(prev, c) # {} =>
                   IF FallbackCase(c)
                   THEN data[r][c] = <<"0">>
                   ELSE /\ HoldsStatistic(r, c)
                        /\ numeric_precision > 0 => data[r][c] # <<"0">>
        /\ FirstEntryOnly

\* a list with an unknown first entry and mean as second filled a column
\* judged numeric with "0"
C25_Witness ==
    /\ op = "handle_missing_values"
    /\ Len(missing_value_strategies) = 2
    /\ missing_value_strategies[2] = "mean"
    /\ JudgedNumeric(prev, 1)
    /\ \E r \in MissingRows(prev, 1) : data[r][1] = <<"0">>

\* C26: handle_missing_values changes nothing but missing cells of data rows:
\* the number of rows, the width of every row, the header row and every data
\* cell that is no missing marker are as before, each at its place, and the
\* missing cells of a column that are replaced all hold one replacement
C26_OnlyMissingCellsChange ==
    op = "handle_missing_values" =>
        /\ Len(data) = Len(prev)
        /\ \A r \in 1..Len(prev) :
               /\ Len(data[r]) = Len(prev[r])
               /\ r = 1 => data[r] = prev[r]
               /\ \A c \in 1..Len(prev[r]) :
                      prev[r][c] \notin MissingMarkers => data[r][c] = prev[r][c]
        /\ \A r, q \in 2..Len(prev) : \A c \in 1..Len(prev[1]) :
               ( /\ r \in MissingRows(prev, c)
                 /\ q \in MissingRows(prev, c)
                 /\ PresentRows(prev, c) # {} )
                   => data[r][c] = data[q][c]

\* a call replaced two missing cells of a column by one value and kept a
\* value of that column and a short row
C26_Witness ==
    /\ op = "handle_missing_values"
    /\ \E r, q, k \in 2..Len(prev) :
           /\ r # q
           /\ r \in MissingRows(prev, 1)
           /\ q \in MissingRows(prev, 1)
           /\ k \in PresentRows(prev, 1)
           /\ data[r][1] \notin MissingMarkers
           /\ data[r][1] = data[q][1]
           /\ data[k][1] = prev[k][1]
    /\ \E r \in 2..Len(prev) : Len(prev[r]) = 1
----------------------------------------------------------------------------
(* Properties of the cleaned table *)

\* C27 as stated: after clean_data the data rows are pairwise distinct, for
\* any input table, and a second clean_data call removes no row
C27_NoEqualRowsAfterClean ==
    op = "clean_data" =>
        /\ NoDuplicateRows(data)
        /\ Len(clean_data(data, missing_value_strategies, numeric_precision))
               = Len(data)

\* the cell may be rewritten by imputation or normalization
Rewritable(cell) == cell \in MissingMarkers \/ NumericPattern(cell)

\* C27 amended: clean_data keeps one row for each distinct data row of the
\* input, the first occurrences in their order; two data rows of the result
\* are equal only if the input rows they stem from were different and differ
\* in cells that imputation or normalization rewrites (a missing marker or
\* numeric text in both rows), so equal rows can remain and a second call can
\* remove one
C27_EqualOnlyByRewriting ==
    (op = "clean_data" /\ Len(prev) >= 1) =>
        LET F == FirstOccurrences(prev)
        IN  /\ Len(data) = 1 + Cardinality(F)
            /\ \A i, j \in 2..Len(data) :
                   (i < j /\ data[i] = data[j]) =>
                       LET a == prev[NthOf(F, i - 1)]
                           b == prev[NthOf(F, j - 1)]
                       IN  /\ a # b
                           /\ Len(a) = Len(b)
                           /\ \A c \in 1..Len(a) :
                                  a[c] # b[c] => (Rewritable(a[c]) /\ Rewritable(b[c]))

\* a cleaning call removed a duplicate row and left two equal rows, one of
\* which a second call removes
C27_Witness ==
    /\ op = "clean_data"
    /\ Len(data) < Len(prev)
    /\ ~NoDuplicateRows(data)
    /\ Len(clean_data(data, missing_value_strategies, numeric_precision))
           < Len(data)
----------------------------------------------------------------------------
(* Properties of the pipeline *)

\* C28: in AdapterApplication::run every data row the parser returned, the
\* first one included, is cleaned: the rows left are one for each distinct
\* parsed row (a later row equal to the first is removed), a missing cell of
\* the first row is imputed when its column has a value, and a numeric cell
\* of the first row is normalized to the default precision 2
C28_FirstRowCleaned ==
    (run_call.called /\ run_call.returned = 0 /\ Len(run_call.parsed) >= 1) =>
        LET parsed == run_call.parsed
            cleaned == run_call.cleaned
        IN  /\ Len(cleaned) =
                   Cardinality({parsed[k] : k \in 1..Len(parsed)})
            /\ \A c \in 1..Len(parsed[1]) :
                   /\ ( /\ parsed[1][c] \in MissingMarkers
                        /\ \E k \in 1..Len(parsed) :
                               parsed[k][c] \notin MissingMarkers )
                          => cleaned[1][c] \notin MissingMarkers
                   /\ NumericPattern(parsed[1][c])
                          => IsFixedPoint(cleaned[1][c], 2)
----------------------------------------------------------------------------
(* Properties of the resampled values *)

\* the column c reads as a number in every sample
NumericColumn(c) ==
    \A i \in 1..Len(align_call.original_times) : ReadsNumber(SampleValue(i, c))

\* the number std::stod reads from the text s is at least, at most, exactly
\* the given number of tenths
AtLeastTenths(s, tenths) ==
    Signed(stod_prefix(s)) * 10 >= tenths * stod_prefix(s).den

AtMostTenths(s, tenths) ==
    Signed(stod_prefix(s)) * 10 <= tenths * stod_prefix(s).den

EqualsTenths(s, tenths) ==
    AtLeastTenths(s, tenths) /\ AtMostTenths(s, tenths)

\* the number n lies between a and b, in either order
Between(n, a, b) ==
    (a <= n /\ n <= b) \/ (b <= n /\ n <= a)

\* C29: when every time parses and a column is numeric in every sample, the
\* grid time of a resampled value lies between the two times of the bracket
\* used for it (the first and the last sample when no adjacent pair encloses
\* it), and the value lies between the two values of that bracket and so
\* between the smallest and the largest value of the column
C29_NoExtrapolation ==
    Interpolated =>
        \A k \in 1..Len(align_call.target_times) : \A c \in ValueColumns :
            NumericColumn(c) =>
                LET t  == Tenths(align_call.target_times[k])
                    b  == BracketOf(t)
                    y1 == ValueTenths(SampleValue(b.lower_idx, c))
                    y2 == ValueTenths(SampleValue(b.upper_idx, c))
                IN  /\ Enclosing(t) = {}
                           => /\ b = [lower_idx |-> 1, upper_idx |-> Len(align_call.original_times)]
                              /\ Between(t, SampleTenths(1), SampleTenths(Len(align_call.original_times)))
                    /\ Between(t, SampleTenths(b.lower_idx), SampleTenths(b.upper_idx))
                    /\ ReadsNumber(data[k + 1][c])
                    /\ \/ AtLeastTenths(data[k + 1][c], y1) /\ AtMostTenths(data[k + 1][c], y2)
                       \/ AtLeastTenths(data[k + 1][c], y2) /\ AtMostTenths(data[k + 1][c], y1)
                    /\ \E i \in 1..Len(align_call.original_times) :
                           AtLeastTenths(data[k + 1][c], ValueTenths(SampleValue(i, c)))
                    /\ \E i \in 1..Len(align_call.original_times) :
                           AtMostTenths(data[k + 1][c], ValueTenths(SampleValue(i, c)))

\* samples at the times 3, 0, 1 with the values 10, 20, 40: no adjacent pair
\* encloses the grid time 2, the fallback bracket is the first and the last
\* sample, and the value 25 lies strictly between 10 and 40
C29_Witness ==
    /\ Interpolated
    /\ TimeIndex = 1
    /\ [i \in 1..Len(align_call.original_times) |-> SampleTenths(i)] = <<30, 0, 10>>
    /\ [i \in 1..3 |-> SampleValue(i, 2)] = NumberPattern
    /\ \E k \in 1..Len(align_call.target_times) :
           /\ Tenths(align_call.target_times[k]) = 20
           /\ Enclosing(20) = {}
           /\ data[k + 1][2] = <<"2", "5", ".", "0", "0", "0", "0", "0", "0">>
\* the parsed times of the call are pairwise distinct
DistinctTimes ==
    \A i, j \in 1..Len(align_call.original_times) :
        i # j => SampleTenths(i) # SampleTenths(j)

\* the rows of the call are in ascending order of time
AscendingTimes ==
    \A i, j \in 1..Len(align_call.original_times) :
        i < j => SampleTenths(i) < SampleTenths(j)

\* in the numeric column c, every grid time that is the time of a sample
\* has a value numerically equal to the value of that sample
KeepsSamples(c) ==
    \A k \in 1..Len(align_call.target_times) :
        \A i \in 1..Len(align_call.original_times) :
            Tenths(align_call.target_times[k]) = SampleTenths(i)
                => EqualsTenths(data[k + 1][c], ValueTenths(SampleValue(i, c)))

\* C30 as stated: with pairwise distinct parsed times in any row order and a
\* fully numeric column, every grid time that equals the time of an original
\* row gets a value numerically equal to the value of that row
C30_SamplesPreserved ==
    (Interpolated /\ DistinctTimes) =>
        \A c \in ValueColumns : NumericColumn(c) => KeepsSamples(c)

\* C30: with parsed times in strictly ascending row order and a fully
\* numeric column, every grid time that equals the time of an original row
\* gets a value numerically equal to the value of that row
C30_SamplesPreservedAscending ==
    (Interpolated /\ AscendingTimes) =>
        \A c \in ValueColumns : NumericColumn(c) => KeepsSamples(c)

\* samples at the times 0, 1, 3 with the values 10, 20, 40 and the interval
\* 0.5: the grid times 0, 1 and 3 carry 10, 20 and 40, and the grid time 0.5
\* between them carries 15
C30_Witness ==
    /\ Interpolated
    /\ AscendingTimes
    /\ TimeIndex = 1
    /\ [i \in 1..Len(align_call.original_times) |-> SampleTenths(i)] = <<0, 10, 30>>
    /\ [i \in 1..3 |-> SampleValue(i, 2)] = NumberPattern
    /\ Len(align_call.target_times) = 7
    /\ Tenths(align_call.target_times[2]) = 5
    /\ data[2][2] = <<"1", "0", ".", "0", "0", "0", "0", "0", "0">>
    /\ data[3][2] = <<"1", "5", ".", "0", "0", "0", "0", "0", "0">>
    /\ data[4][2] = <<"2", "0", ".", "0", "0", "0", "0", "0", "0">>
    /\ data[8][2] = <<"4", "0", ".", "0", "0", "0", "0", "0", "0">>

====
